---- MODULE Spec2Model ----
(***************************************************************************)
(* Contract maintenance of the satellite's contractor                      *)
(* (satellite/manager/contractor/contractmaintenance.go).                  *)
(*                                                                         *)
(* The contract store (proto.ContractSet), the watchdog, the alerter, the  *)
(* wallet and the host database are collaborators whose code is not part   *)
(* of the modelled file; their behaviour is taken from the design          *)
(* document and kept in the operators of the section "Collaborators".      *)
(*                                                                         *)
(* Atomicity.  One action is the code a thread runs between two points at  *)
(* which it can be overtaken in a way the code reacts to: a contract       *)
(* handle acquisition, a network round trip, or the contractor mutex       *)
(* around a write of the lineage maps.                                     *)
(***************************************************************************)
EXTENDS Integers, Sequences, FiniteSets, TLC

\* ------------------------------------------------------------------ bounds
\* Contract ids are 1..MaxContracts; forming or renewing stops when they
\* are used up.
MaxContracts == 4
\* The block height never advances beyond MaxHeight.
MaxHeight == 4
\* The number of contracts a store loaded from disk holds in SpecDup.
MaxLoaded == 3
MaxFailedRenews == 3
MaxDoubleSpends == 1

\* -------------------------------------------------------- program constants
\* consecutiveRenewalsBeforeReplacement (consts of the contractor package).
consecutiveRenewalsBeforeReplacement == 3

RenterKeys == {"r1", "r2"}
HostKeys == {"h1", "h2"}
IDs == 1..MaxContracts
MaintThreads == {"m1", "m2"}
RenewCallers == {"ra", "rb"}
FormCallers == {"fa", "fb"}

\* --------------------------------------------------------------- utilities
EmptyMap == [x \in {} |-> 0]
MapPut(f, k, v) == [x \in (DOMAIN f) \cup {k} |-> IF x = k THEN v ELSE f[x]]
MapDel(f, k) == [x \in (DOMAIN f) \ {k} |-> f[x]]
Perms(S) == {s \in [1..Cardinality(S) -> S] : \A i, j \in 1..Cardinality(S) : s[i] = s[j] => i = j}
Range(s) == {s[i] : i \in DOMAIN s}

\* smodules.ContractUtility
Utility(gfu, gfr, locked) == [GoodForUpload |-> gfu, GoodForRenew |-> gfr, Locked |-> locked]
GoodUtility == Utility(TRUE, TRUE, FALSE)
LockedUtility == Utility(FALSE, FALSE, TRUE)
\* "Contract is canceled": contractmaintenance.go, line 486.
IsCanceled(u) == u.Locked /\ ~u.GoodForRenew /\ ~u.GoodForUpload

VARIABLES
    running,              \* the parties of the run: which entry points and threads are active
    contracts,            \* staticContracts: id -> modules.RenterContract (the live store)
    acquired,             \* staticContracts: id -> the thread holding the contract's handle
    oldContracts,         \* c.oldContracts: id -> metadata of an archived contract
    renewedFrom,          \* c.renewedFrom
    renewedTo,            \* c.renewedTo
    pubKeysToContractID,  \* c.pubKeysToContractID: <<renter, host>> -> id
    numFailedRenews,      \* c.numFailedRenews
    doubleSpentContracts, \* c.doubleSpentContracts: id -> height
    blockHeight,          \* c.blockHeight
    synced,               \* c.managedSynced()
    stopped,              \* c.tg.StopChan() is closed
    maintenanceLock,      \* c.maintenanceLock: "free" or its holder
    alerts,               \* staticAlerter: the registered alert ids
    monitored,            \* staticWatchdog: ids handed to callMonitorContract
    nextID,               \* the next contract id the host hands out
    renters,              \* c.renters: key -> modules.Renter
    hdb,                  \* c.hdb: host key -> host entry
    maxFee,               \* c.tpool.FeeEstimation(): the maximum fee
    mpc,                  \* threadedContractMaintenance: position of each thread
    mTodo,                \* managedCheckForDuplicates: rest of the ViewAll() slice
    mKeys,                \* managedCheckForDuplicates: the local pubkeys map
    walletUnlocked,       \* c.wallet.Unlocked()
    wdPending,            \* callNotifyDoubleSpend: ids whose MarkContractBad waits for the handle
    broadcast,            \* staticWatchdog: ids given to threadedSendMostRecentRevision
    renew,                \* RenewContracts: the locals of each caller
    form,                 \* FormContracts: the locals of each caller
    interrupt             \* callInterruptContractMaintenance: position of the caller

storeVars == <<contracts, acquired, oldContracts, renewedFrom, renewedTo, pubKeysToContractID>>
contractorVars == <<numFailedRenews, doubleSpentContracts>>
envVars == <<running, blockHeight, synced, stopped, running, renters, hdb, maxFee, nextID, walletUnlocked>>
maintVars == <<mpc, mTodo, mKeys, maintenanceLock, interrupt>>
extVars == <<alerts, monitored, broadcast, wdPending>>
callVars == <<renew, form, interrupt>>
vars == <<running, contracts, acquired, oldContracts, renewedFrom, renewedTo, pubKeysToContractID,
          numFailedRenews, doubleSpentContracts, blockHeight, synced, stopped,
          maintenanceLock, alerts, monitored, nextID, running, renters, hdb, maxFee, mpc, mTodo, mKeys,
          walletUnlocked, wdPending, broadcast, renew, form, interrupt>>

\* ------------------------------------------------------------ collaborators
\* modules.RenterContract, as the store hands it out.
Contract(id, rpk, hpk, start, end, cost, funds, u) ==
    [ID |-> id, RenterPublicKey |-> rpk, HostPublicKey |-> hpk,
     StartHeight |-> start, EndHeight |-> end, TotalCost |-> cost, RenterFunds |-> funds,
     UploadSpending |-> 0, DownloadSpending |-> 0, FundAccountSpending |-> 0,
     MaintenanceSpending |-> 0, FileSize |-> 0, Utility |-> u]

\* staticContracts.ViewAll(): the live contracts, in the order of a map walk.
ViewAll == {contracts[id] : id \in DOMAIN contracts}
\* staticContracts.View(id) succeeds.
Viewable(id) == id \in DOMAIN contracts
\* staticContracts.Acquire(id) neither fails nor waits: the contract is live
\* and no thread holds its handle.
Free(id) == id \notin DOMAIN acquired
\* fileContract.UpdateUtility via callUpdateUtility (lines 969-973).
callUpdateUtility(store, id, u) == [store EXCEPT ![id].Utility = u]

PairOf(c) == <<c.RenterPublicKey, c.HostPublicKey>>

\* ------------------------------------------------- managedCheckForDuplicates
\* Line 82: the snapshot is a slice in map order, any order.
ManagedCheckForDuplicatesViewAll(t) ==
    /\ mpc[t] = "dedupe"
    /\ \E order \in Perms(DOMAIN contracts) :
         mTodo' = [mTodo EXCEPT ![t] = [i \in DOMAIN order |-> contracts[order[i]]]]
    /\ mKeys' = [mKeys EXCEPT ![t] = EmptyMap]
    /\ mpc' = [mpc EXCEPT ![t] = "dedupeLoop"]
    /\ UNCHANGED <<storeVars, contractorVars, envVars, maintenanceLock, extVars, callVars>>

\* The comparison of lines 92-96 turned around.
DuplicateNewerTurned(rc, contract) == IF rc.StartHeight <= contract.StartHeight THEN rc ELSE contract

\* Lines 92-96: which of the two contracts is kept.
DuplicateNewer(rc, contract) == IF rc.StartHeight >= contract.StartHeight THEN rc ELSE contract
DuplicateOlder(rc, contract) == IF rc.StartHeight >= contract.StartHeight THEN contract ELSE rc

\* Lines 82-138: one iteration of the loop over the snapshot.
ManagedCheckForDuplicatesIter(t) ==
    /\ mpc[t] = "dedupeLoop"
    /\ mTodo[t] # << >>
    /\ LET contract == Head(mTodo[t])
           key == PairOf(contract)
           keys == mKeys[t]
       IN  IF key \notin DOMAIN keys
           THEN /\ mKeys' = [mKeys EXCEPT ![t] = MapPut(keys, key, contract.ID)]
                /\ UNCHANGED storeVars
           ELSE IF ~Viewable(keys[key])
           THEN UNCHANGED <<mKeys, storeVars>>
           ELSE LET rc == contracts[keys[key]]
                    newContract == DuplicateNewer(rc, contract)
                    oldContract == DuplicateOlder(rc, contract)
                IN  IF ~Viewable(oldContract.ID)
                    THEN /\ mKeys' = [mKeys EXCEPT ![t] = MapPut(keys, key, newContract.ID)]
                         /\ UNCHANGED storeVars
                    ELSE /\ Free(oldContract.ID)
                         /\ renewedFrom' = MapPut(renewedFrom, newContract.ID, oldContract.ID)
                         /\ renewedTo' = MapPut(renewedTo, oldContract.ID, newContract.ID)
                         /\ oldContracts' = MapPut(oldContracts, oldContract.ID, contracts[oldContract.ID])
                         /\ contracts' = MapDel(contracts, oldContract.ID)
                         /\ mKeys' = [mKeys EXCEPT ![t] = MapPut(keys, key, newContract.ID)]
                         /\ UNCHANGED <<acquired, pubKeysToContractID>>
    /\ mTodo' = [mTodo EXCEPT ![t] = Tail(mTodo[t])]
    /\ UNCHANGED <<mpc, contractorVars, envVars, maintenanceLock, extVars, callVars>>

\* Line 139: the loop is over.
ManagedCheckForDuplicatesDone(t) ==
    /\ mpc[t] = "dedupeLoop"
    /\ mTodo[t] = << >>
    /\ mpc' = [mpc EXCEPT ![t] = "pubkeys"]
    /\ UNCHANGED <<storeVars, contractorVars, envVars, maintenanceLock, extVars, callVars,
                   mTodo, mKeys>>

\* ------------------------------------------------ threadedContractMaintenance
\* A tick that goes on whoever holds the lock.
MaintenanceStartNoTryLock(t) ==
    /\ "maintenance" \in running
    /\ mpc[t] = "idle"
    /\ ~stopped
    /\ synced
    /\ maintenanceLock' = t
    /\ mpc' = [mpc EXCEPT ![t] = "archive"]
    /\ UNCHANGED <<storeVars, contractorVars, envVars, extVars, callVars, mTodo, mKeys>>

\* Lines 981-1002: the thread group admits the thread, consensus is synced
\* and TryLock succeeds.  (A tick that finds the lock held returns at line
\* 1000 and changes nothing.)
MaintenanceStart(t) ==
    /\ "maintenance" \in running
    /\ mpc[t] = "idle"
    /\ ~stopped
    /\ synced
    /\ maintenanceLock = "free"
    /\ maintenanceLock' = t
    /\ mpc' = [mpc EXCEPT ![t] = "archive"]
    /\ UNCHANGED <<storeVars, contractorVars, envVars, extVars, callVars, mTodo, mKeys>>

\* Lines 999-1002: TryLock fails, the tick returns and has changed nothing.
MaintenanceSkip(t) ==
    /\ "maintenance" \in running
    /\ mpc[t] = "idle"
    /\ ~stopped
    /\ synced
    /\ maintenanceLock # "free"
    /\ UNCHANGED vars

\* managedArchiveContracts (line 1006): the contracts whose end height has passed.
Expired == {id \in DOMAIN contracts : blockHeight > contracts[id].EndHeight}
ManagedArchiveContracts(t) ==
    /\ mpc[t] = "archive"
    /\ \A id \in Expired : Free(id)
    /\ oldContracts' = [id \in (DOMAIN oldContracts) \cup Expired |->
                           IF id \in Expired THEN contracts[id] ELSE oldContracts[id]]
    /\ contracts' = [id \in (DOMAIN contracts) \ Expired |-> contracts[id]]
    /\ mpc' = [mpc EXCEPT ![t] = "dedupe"]
    /\ UNCHANGED <<acquired, renewedFrom, renewedTo, pubKeysToContractID, contractorVars,
                   envVars, extVars, callVars, mTodo, mKeys, maintenanceLock>>

\* managedUpdatePubKeysToContractIDMap (line 1008): the map is rebuilt from
\* the live contracts; of two live contracts of a pair either may be named.
ManagedUpdatePubKeysToContractIDMap(t) ==
    /\ mpc[t] = "pubkeys"
    /\ \E m \in [{PairOf(c) : c \in ViewAll} -> DOMAIN contracts] :
         /\ \A k \in DOMAIN m : PairOf(contracts[m[k]]) = k
         /\ pubKeysToContractID' = m
    /\ mpc' = [mpc EXCEPT ![t] = "prune"]
    /\ UNCHANGED <<contracts, acquired, oldContracts, renewedFrom, renewedTo, contractorVars,
                   envVars, extVars, callVars, mTodo, mKeys, maintenanceLock>>

\* The contracts that are not locked.
NotCanceledUnlocked == {id \in DOMAIN contracts : ~contracts[id].Utility.Locked}

\* Lines 483-491: the contracts that are not canceled.
NotCanceled == {id \in DOMAIN contracts : ~IsCanceled(contracts[id].Utility)}
\* hdb.CheckForIPViolations(pks), line 516.
CheckForIPViolations(pks) == {h \in pks : h \in DOMAIN hdb /\ hdb[h].IPViolation}
\* Lines 521-529: the contracts handed to managedCancelContract.
PruneTargets ==
    {id \in NotCanceled :
        contracts[id].HostPublicKey \in
            CheckForIPViolations({contracts[i].HostPublicKey : i \in NotCanceled})}
\* managedCancelContract: the contract ends locked and good for nothing.
managedCancelContract(store, id) == callUpdateUtility(store, id, LockedUtility)

\* managedPruneRedundantAddressRange, lines 481-530.
ManagedPruneRedundantAddressRange(t) ==
    /\ mpc[t] = "prune"
    /\ \A id \in PruneTargets : Free(id)
    /\ contracts' = [id \in DOMAIN contracts |->
                        IF id \in PruneTargets
                        THEN managedCancelContract(contracts, id)[id] ELSE contracts[id]]
    /\ mpc' = [mpc EXCEPT ![t] = "hdbUpdate"]
    /\ UNCHANGED <<acquired, oldContracts, renewedFrom, renewedTo, pubKeysToContractID,
                   contractorVars, envVars, extVars, callVars, mTodo, mKeys, maintenanceLock>>

\* Lines 1014-1018: hdb.UpdateContracts; on an error the pass returns and
\* the deferred Unlock runs.
MaintenanceUpdateContracts(t) ==
    /\ mpc[t] = "hdbUpdate"
    /\ \E ok \in BOOLEAN :
         IF ok
         THEN mpc' = [mpc EXCEPT ![t] = "limit"] /\ UNCHANGED maintenanceLock
         ELSE mpc' = [mpc EXCEPT ![t] = "idle"] /\ maintenanceLock' = "free"
    /\ UNCHANGED <<storeVars, contractorVars, envVars, extVars, callVars, mTodo, mKeys>>

\* Lines 545-569: the GFU contracts whose host the hostdb knows.
GfuContracts ==
    {id \in DOMAIN contracts :
        contracts[id].Utility.GoodForUpload /\ contracts[id].HostPublicKey \in DOMAIN hdb}
\* Lines 571-573: sort.Slice by ascending score; equal scores in any order.
SortedByScore(ord) ==
    \A i, j \in DOMAIN ord :
        i < j => hdb[contracts[ord[i]].HostPublicKey].Score <= hdb[contracts[ord[j]].HostPublicKey].Score
\* Twice the hosts of the allowance.
NumHostsDoubled == [r \in DOMAIN renters |-> 2 * renters[r].Allowance.Hosts]

\* Lines 576-579.
NumHosts == [r \in DOMAIN renters |-> renters[r].Allowance.Hosts]
\* Lines 580-600: the contracts that lose GoodForUpload, walking the slice.
RECURSIVE LimitDemoted(_, _, _)
LimitDemoted(ord, i, numHosts) ==
    IF i > Len(ord) THEN {}
    ELSE LET key == contracts[ord[i]].RenterPublicKey
         IN  IF key \in DOMAIN numHosts /\ numHosts[key] > 0
             THEN LimitDemoted(ord, i + 1, [numHosts EXCEPT ![key] = @ - 1])
             ELSE {ord[i]} \cup LimitDemoted(ord, i + 1, numHosts)

\* managedLimitGFUHosts, lines 533-601, and the return of the pass.
ManagedLimitGFUHosts(t) ==
    /\ mpc[t] = "limit"
    /\ \E ord \in Perms(GfuContracts) :
         /\ SortedByScore(ord)
         /\ LET demoted == LimitDemoted(ord, 1, NumHosts)
            IN  /\ \A id \in demoted : Free(id)
                /\ contracts' = [id \in DOMAIN contracts |->
                                    IF id \in demoted
                                    THEN [contracts[id] EXCEPT !.Utility.GoodForUpload = FALSE]
                                    ELSE contracts[id]]
    /\ mpc' = [mpc EXCEPT ![t] = "idle"]
    /\ maintenanceLock' = "free"
    /\ UNCHANGED <<acquired, oldContracts, renewedFrom, renewedTo, pubKeysToContractID,
                   contractorVars, envVars, extVars, callVars, mTodo, mKeys>>

\* ------------------------------------------------------------------ watchdog
\* MarkContractBad: the contract ends locked and good for nothing.
MarkContractBad(store, id) == callUpdateUtility(store, id, LockedUtility)

\* callNotifyDoubleSpend, lines 61-74, for a contract the watchdog monitors.
\* MarkContractBad waits while another thread holds the contract's handle.
CallNotifyDoubleSpend(id) ==
    /\ "watchdog" \in running
    /\ id \in monitored
    /\ id \notin DOMAIN doubleSpentContracts
    /\ Cardinality(DOMAIN doubleSpentContracts) < MaxDoubleSpends
    /\ doubleSpentContracts' = MapPut(doubleSpentContracts, id, blockHeight)
    /\ IF ~Viewable(id)
       THEN UNCHANGED <<contracts, wdPending>>
       ELSE IF Free(id)
       THEN contracts' = MarkContractBad(contracts, id) /\ UNCHANGED wdPending
       ELSE wdPending' = wdPending \cup {id} /\ UNCHANGED contracts
    /\ UNCHANGED <<acquired, oldContracts, renewedFrom, renewedTo, pubKeysToContractID,
                   numFailedRenews, envVars, maintVars, alerts, monitored, broadcast, callVars>>

\* Line 70, once the handle is free.
CallNotifyDoubleSpendMark(id) ==
    /\ id \in wdPending
    /\ Free(id)
    /\ wdPending' = wdPending \ {id}
    /\ contracts' = IF Viewable(id) THEN MarkContractBad(contracts, id) ELSE contracts
    /\ UNCHANGED <<acquired, oldContracts, renewedFrom, renewedTo, pubKeysToContractID,
                   contractorVars, envVars, maintVars, alerts, monitored, broadcast, callVars>>

\* --------------------------------------------------------------- environment
\* The consensus tip advances.
AdvanceBlock ==
    /\ "consensus" \in running
    /\ blockHeight < MaxHeight
    /\ blockHeight' = blockHeight + 1
    /\ UNCHANGED <<storeVars, contractorVars, synced, stopped, running, renters, hdb, maxFee, nextID,
                   walletUnlocked, maintVars, extVars, callVars>>

\* The thread group is stopped: c.tg.StopChan() is closed.
CloseStopChan ==
    /\ "stop" \in running
    /\ ~stopped
    /\ stopped' = TRUE
    /\ UNCHANGED <<storeVars, contractorVars, blockHeight, synced, running, renters, hdb, maxFee, nextID,
                   walletUnlocked, maintVars, extVars, callVars>>

\* ------------------------------------------------------------ funding rules
\* types.Currency.MulFloat(fileContractMinimumFunding): the product with the
\* float64 nearest to 0.15, which lies just below 0.15, rounded down.
MulFloatMinimumFunding(x) ==
    IF x > 0 /\ (x * 15) % 100 = 0 THEN (x * 15) \div 100 - 1 ELSE (x * 15) \div 100
\* Lines 267 and 1353: the least funding of a contract.
MinimumFunding(allowance) == MulFloatMinimumFunding(allowance.Funds) \div allowance.Hosts
\* types.Tax(height, payout): 3.9%, rounded down to a multiple of the siafund count.
SiafundCount == 10000
Tax(payout) == ((payout * 39) \div 1000) - (((payout * 39) \div 1000) % SiafundCount)
\* smodules.EstimatedFileContractTransactionSetSize, used at lines 257 and 1120.
EstimatedFileContractTransactionSetSize == 2048
\* smodules.SectorSize, used at lines 1332-1335.
SectorSize == 4194304

RECURSIVE SumOf(_, _)
SumOf(f, S) == IF S = {} THEN 0 ELSE LET x == CHOOSE y \in S : TRUE IN f[x] + SumOf(f, S \ {x})

\* PeriodSpending(rpk).TotalAllocated: the total cost of the renter's live
\* contracts and of its archived contracts of the current period, without
\* the double-spent ones.
TotalAllocated(rpk) ==
    LET live == {id \in DOMAIN contracts :
                    contracts[id].RenterPublicKey = rpk /\ id \notin DOMAIN doubleSpentContracts}
        old == {id \in (DOMAIN oldContracts) \ (DOMAIN contracts) :
                    /\ oldContracts[id].RenterPublicKey = rpk
                    /\ id \notin DOMAIN doubleSpentContracts
                    /\ oldContracts[id].StartHeight >= renters[rpk].CurrentPeriod}
    IN  SumOf([id \in live |-> contracts[id].TotalCost], live)
        + SumOf([id \in old |-> oldContracts[id].TotalCost], old)

\* Lines 1068-1071 and 1280-1283: the funds a batch may still spend.
FundsRemaining(rpk) ==
    IF TotalAllocated(rpk) < renters[rpk].Allowance.Funds
    THEN renters[rpk].Allowance.Funds - TotalAllocated(rpk)
    ELSE renters[rpk].Allowance.Funds

\* Lines 171-210: the spending of the contract and of its predecessors of
\* the current period; at most WalkCap predecessors are visited.
WalkCap == 10000
Spending(c) ==
    [Upload |-> c.UploadSpending, Download |-> c.DownloadSpending,
     FundAccount |-> c.FundAccountSpending, Maintenance |-> c.MaintenanceSpending]
AddSpending(a, b) ==
    [Upload |-> a.Upload + b.Upload, Download |-> a.Download + b.Download,
     FundAccount |-> a.FundAccount + b.FundAccount, Maintenance |-> a.Maintenance + b.Maintenance]
\* One iteration of the loop without the test of the start height.
WalkStepAnyPeriod(w, period) ==
    IF w.id \notin DOMAIN renewedFrom THEN [w EXCEPT !.done = TRUE]
    ELSE LET prev == renewedFrom[w.id]
         IN  IF prev \notin DOMAIN oldContracts THEN [w EXCEPT !.done = TRUE]
             ELSE [id |-> prev, acc |-> AddSpending(w.acc, Spending(oldContracts[prev])),
                   i |-> w.i + 1, done |-> FALSE]

\* Lines 182-209: one iteration of the loop; w is [id, acc, i, done], done
\* after a break.
WalkStep(w, period) ==
    IF w.id \notin DOMAIN renewedFrom THEN [w EXCEPT !.done = TRUE]
    ELSE LET prev == renewedFrom[w.id]
         IN  IF prev \notin DOMAIN oldContracts THEN [w EXCEPT !.done = TRUE]
             ELSE IF oldContracts[prev].StartHeight < period THEN [w EXCEPT !.done = TRUE]
             ELSE [id |-> prev, acc |-> AddSpending(w.acc, Spending(oldContracts[prev])),
                   i |-> w.i + 1, done |-> FALSE]
\* Line 182: n iterations of the loop from w on, or fewer after a break:
\* one iteration, then the first half of those left, then the others.
RECURSIVE Walk(_, _, _)
Walk(w, period, n) ==
    IF w.done \/ n = 0 THEN w
    ELSE CHOOSE r \in
           {IF next.done \/ n = 1 THEN next
            ELSE CHOOSE s \in {Walk(half, period, rest) :
                                  half \in {Walk(next, period, first) : first \in {(n - 1) \div 2}},
                                  rest \in {(n - 1) - ((n - 1) \div 2)}} : TRUE
              : next \in {WalkStep(w, period)}} : TRUE
PrevSpending(currentID, period, acc, i) ==
    (CHOOSE r \in {Walk(w, period, n) :
                      w \in {[id |-> currentID, acc |-> acc, i |-> i, done |-> FALSE]},
                      n \in {IF i < WalkCap THEN WalkCap - i ELSE 0}} : TRUE).acc

\* The estimate returned as it is, whatever the minimum.
EstimateWithoutMinimum(estimatedCost, minimum) == estimatedCost

\* Lines 268-271: the estimate is at least the minimum.
EstimateWithMinimum(estimatedCost, minimum) ==
    IF estimatedCost < minimum THEN minimum ELSE estimatedCost

\* The estimate without the test of host.Filtered: the least funding for
\* any host of the directory.
managedEstimateRenewFundingRequirementsNoFilter(contract, allowance) ==
    IF contract.HostPublicKey \notin DOMAIN hdb THEN [err |-> "hostNotFound", amount |-> 0]
    ELSE [err |-> "nil", amount |-> MinimumFunding(allowance)]

\* managedEstimateRenewFundingRequirements, lines 145-272: [err, amount].
managedEstimateRenewFundingRequirements(contract, allowance) ==
    IF contract.HostPublicKey \notin DOMAIN hdb THEN [err |-> "hostNotFound", amount |-> 0]
    ELSE IF hdb[contract.HostPublicKey].Filtered THEN [err |-> "errHostBlocked", amount |-> 0]
    ELSE IF contract.RenterPublicKey \notin DOMAIN renters THEN [err |-> "ErrRenterNotFound", amount |-> 0]
    ELSE LET host == hdb[contract.HostPublicKey]
             renter == renters[contract.RenterPublicKey]
             dataStored == contract.FileSize
             storageCost == dataStored * allowance.Period * host.StoragePrice
             prev == PrevSpending(contract.ID, renter.CurrentPeriod, Spending(contract), 0)
             byPrice == IF host.UploadBandwidthPrice # 0
                        THEN prev.Upload \div host.UploadBandwidthPrice ELSE prev.Upload
             prevUploadDataEstimate == IF dataStored < byPrice THEN dataStored ELSE byPrice
             newUploadsCost == prev.Upload + prevUploadDataEstimate * allowance.Period * host.StoragePrice
             beforeSiafundFeesEstimate ==
                 storageCost + newUploadsCost + prev.Download + prev.FundAccount
                     + prev.Maintenance + host.ContractPrice
             afterSiafundFeesEstimate == Tax(beforeSiafundFeesEstimate) + beforeSiafundFeesEstimate
             txnFees == maxFee * EstimatedFileContractTransactionSetSize
             estimatedCost == (afterSiafundFeesEstimate + txnFees) + ((afterSiafundFeesEstimate + txnFees) \div 3)
             minimum == MinimumFunding(allowance)
         IN  [err |-> "nil", amount |-> EstimateWithMinimum(estimatedCost, minimum)]

\* The payment filter with the comparisons of the form-time filter.
staticCheckFormPaymentContractGougingStrict(allowance, hostSettings) ==
    \/ allowance.MaxRPCPrice # 0 /\ allowance.MaxRPCPrice < hostSettings.BaseRPCPrice
    \/ allowance.MaxContractPrice # 0 /\ allowance.MaxContractPrice < hostSettings.ContractPrice
    \/ allowance.MaxSectorAccessPrice # 0
          /\ allowance.MaxSectorAccessPrice < hostSettings.SectorAccessPrice

\* Lines 606-620: staticCheckFormPaymentContractGouging; TRUE when the host
\* is rejected.
staticCheckFormPaymentContractGouging(allowance, hostSettings) ==
    \/ allowance.MaxRPCPrice # 0 /\ allowance.MaxRPCPrice <= hostSettings.BaseRPCPrice
    \/ allowance.MaxContractPrice # 0 /\ allowance.MaxContractPrice <= hostSettings.ContractPrice
    \/ allowance.MaxSectorAccessPrice # 0
          /\ allowance.MaxSectorAccessPrice <= hostSettings.SectorAccessPrice

\* The form-time filter without the test of the contract price.
checkFormContractGougingRPCOnly(allowance, hostSettings) ==
    allowance.MaxRPCPrice # 0 /\ allowance.MaxRPCPrice < hostSettings.BaseRPCPrice

\* Lines 626-634: checkFormContractGouging; TRUE when the host is rejected.
checkFormContractGouging(allowance, hostSettings) ==
    \/ allowance.MaxRPCPrice # 0 /\ allowance.MaxRPCPrice < hostSettings.BaseRPCPrice
    \/ allowance.MaxContractPrice # 0 /\ allowance.MaxContractPrice < hostSettings.ContractPrice

\* maxStoragePrice of the contractor package, used at lines 362 and 666.
maxStoragePrice == 1000

\* --------------------------------------------------------------- RenewContracts
AlertIDRenterAllowanceLowFunds == "RenterAllowanceLowFunds"
\* RegisterAlert and UnregisterAlert both left out of the deferred function.
DeferredAlertKept(registerLowFundsAlert) == alerts

\* Lines 1227-1233: the deferred registration.
DeferredAlert(registerLowFundsAlert) ==
    IF registerLowFundsAlert
    THEN alerts \cup {AlertIDRenterAllowanceLowFunds}
    ELSE alerts \ {AlertIDRenterAllowanceLowFunds}

\* ------------------------------------------------- the wallet in a negotiation
\* What managedNewContract or managedRenew has done with the wallet when it
\* returns: uc, an address was got from NextAddress; markedUnused, the calls
\* of MarkAddressUnused for it; txnBuilder, the transaction builder is not
\* created ("none"), created and kept ("started") or dropped ("dropped").
NoWallet == [uc |-> FALSE, markedUnused |-> 0, txnBuilder |-> "none"]

\* The returns before NextAddress has given an address (lines 353-394 and
\* 641-687), and those before StartTransaction has given a builder (lines
\* 402-431 and 695-724).
BeforeNextAddress ==
    {"ErrRenterNotFound", "errHostNotFound", "errHostBlocked", "errTooExpensive",
     "insufficientMaxDuration", "priceGouging", "addressErr"}
BeforeStartTransaction == {"seedErr", "startErr"}

\* The deferred function that marks the address on every return.
MarkAddressUnusedAlways(err) == 1

\* Lines 395-399 and 688-692: the deferred function marks the address unused
\* when the function returns an error.
MarkAddressUnusedDeferred(err) == IF err # "nil" THEN 1 ELSE 0

\* Lines 435 and 459: the returns of managedNewContract that drop the
\* builder, after FormContract failed and after the key was found.
DropsNewContractBuilder == {"fail", "exists"}

\* Lines 727 and 751: the returns of managedRenew that drop the builder,
\* after FundSiacoins failed and after Renew failed.
DropsRenewBuilder == {"walletErr", "hostFault"}

\* The wallet at a return of the function with error err ("nil": none).
WalletAtReturn(err, drops) ==
    IF err \in BeforeNextAddress THEN NoWallet
    ELSE [uc |-> TRUE,
          markedUnused |-> MarkAddressUnusedDeferred(err),
          txnBuilder |-> IF err \in BeforeStartTransaction THEN "none"
                         ELSE IF err \in drops THEN "dropped"
                         ELSE "started"]

\* Lines 390-463 of managedNewContract.
ManagedNewContractWallet(err) == WalletAtReturn(err, DropsNewContractBuilder)

\* Lines 683-767 of managedRenew.
ManagedRenewWallet(err) == WalletAtReturn(err, DropsRenewBuilder)

NoRenewal == [id |-> 0, amount |-> 0, hostPubKey |-> "", refresh |-> FALSE]
\* A caller outside RenewContracts; result is the error its last call returned.
RenewIdle(result) ==
    [pc |-> "idle", rpk |-> "", bh |-> 0, ids |-> << >>, todo |-> << >>, setIDs |-> {},
     fundsRemaining |-> 0, low |-> FALSE, contractSet |-> << >>, cur |-> NoRenewal,
     newID |-> 0, errRenew |-> "nil", fundsSpent |-> 0, err |-> "nil", wallet |-> NoWallet,
     result |-> result]

\* Lines 1207-1241.
RenewContractsCall(p, rpk, ids) ==
    /\ "renew" \in running
    /\ renew[p].pc = "idle"
    /\ renew' = [renew EXCEPT ![p] =
         IF ~synced THEN RenewIdle("notSynced")
         ELSE IF rpk \notin DOMAIN renters THEN RenewIdle("ErrRenterNotFound")
         ELSE [RenewIdle("running") EXCEPT
                  !.pc = IF ids = << >> THEN "loop" ELSE "classify",
                  !.rpk = rpk, !.bh = blockHeight, !.ids = ids]]
    /\ UNCHANGED <<storeVars, contractorVars, envVars, maintVars, extVars, form>>

\* Lines 1332-1339: the contract is empty.
ContractIsEmpty(rc, host, allowance) ==
    LET blockBytes == SectorSize * allowance.Period
        sectorPrice == host.StoragePrice * blockBytes
                       + host.UploadBandwidthPrice * SectorSize
                       + host.DownloadBandwidthPrice * SectorSize
    IN  \/ rc.RenterFunds < sectorPrice * 3
        \/ rc.RenterFunds * 100 < rc.TotalCost * 3

\* smodules.MinimumSupportedRenterHostProtocolVersion (line 1297); versions
\* are numbered in their order.
MinimumSupportedRenterHostProtocolVersion == 1

\* The refresh amount without the minimum of lines 1353-1356.
RefreshAmountDouble(rc, allowance) == rc.TotalCost * 2

\* Lines 1352-1356.
RefreshAmount(rc, allowance) ==
    IF rc.TotalCost * 2 < MinimumFunding(allowance) THEN MinimumFunding(allowance) ELSE rc.TotalCost * 2

\* The test of line 1312 with > in the place of >=.
InRenewWindowStrict(bh, allowance, rc) == bh + allowance.RenewWindow > rc.EndHeight

\* Line 1312: the contract is past its renew height.
InRenewWindow(bh, allowance, rc) == bh + allowance.RenewWindow >= rc.EndHeight

\* The iteration without the test of the renter's key at line 1244.
ClassifyAnyOwner(rpk, bh, id) ==
    IF ~Viewable(id) THEN [kind |-> "skip", amount |-> 0]
    ELSE LET rc == contracts[id]
             allowance == renters[rpk].Allowance
         IN  IF bh + allowance.RenewWindow < rc.EndHeight /\ rc.Utility.GoodForUpload
             THEN [kind |-> "keep", amount |-> 0]
             ELSE IF stopped THEN [kind |-> "abort", amount |-> 0]
             ELSE IF rc.HostPublicKey \notin DOMAIN hdb THEN [kind |-> "none", amount |-> 0]
             ELSE IF hdb[rc.HostPublicKey].Filtered THEN [kind |-> "none", amount |-> 0]
             ELSE IF hdb[rc.HostPublicKey].Version < MinimumSupportedRenterHostProtocolVersion
             THEN [kind |-> "none", amount |-> 0]
             ELSE IF ~rc.Utility.GoodForRenew THEN [kind |-> "none", amount |-> 0]
             ELSE IF InRenewWindow(bh, allowance, rc)
             THEN LET est == managedEstimateRenewFundingRequirements(rc, allowance)
                  IN  IF est.err # "nil" THEN [kind |-> "none", amount |-> 0]
                      ELSE [kind |-> "renew", amount |-> est.amount]
             ELSE IF ContractIsEmpty(rc, hdb[rc.HostPublicKey], allowance)
             THEN [kind |-> "refresh", amount |-> RefreshAmount(rc, allowance)]
             ELSE [kind |-> "none", amount |-> 0]

\* Lines 1243-1364: what one iteration decides for id: [kind, amount].
Classify(rpk, bh, id) ==
    IF ~Viewable(id) THEN [kind |-> "skip", amount |-> 0]
    ELSE IF contracts[id].RenterPublicKey # rpk THEN [kind |-> "skip", amount |-> 0]
    ELSE LET rc == contracts[id]
             allowance == renters[rpk].Allowance
         IN  IF bh + allowance.RenewWindow < rc.EndHeight /\ rc.Utility.GoodForUpload
             THEN [kind |-> "keep", amount |-> 0]
             ELSE IF stopped THEN [kind |-> "abort", amount |-> 0]
             ELSE IF rc.HostPublicKey \notin DOMAIN hdb THEN [kind |-> "none", amount |-> 0]
             ELSE IF hdb[rc.HostPublicKey].Filtered THEN [kind |-> "none", amount |-> 0]
             ELSE IF hdb[rc.HostPublicKey].Version < MinimumSupportedRenterHostProtocolVersion
             THEN [kind |-> "none", amount |-> 0]
             ELSE IF ~rc.Utility.GoodForRenew THEN [kind |-> "none", amount |-> 0]
             ELSE IF InRenewWindow(bh, allowance, rc)
             THEN LET est == managedEstimateRenewFundingRequirements(rc, allowance)
                  IN  IF est.err # "nil" THEN [kind |-> "none", amount |-> 0]
                      ELSE [kind |-> "renew", amount |-> est.amount]
             ELSE IF ContractIsEmpty(rc, hdb[rc.HostPublicKey], allowance)
             THEN [kind |-> "refresh", amount |-> RefreshAmount(rc, allowance)]
             ELSE [kind |-> "none", amount |-> 0]

\* One list of renewals in the order of classification.
InsertRenewalAppend(todo, r) == Append(todo, r)

\* The renew set goes before the refresh set (lines 1375 and 1439).
InsertRenewal(todo, r) ==
    IF r.refresh THEN Append(todo, r)
    ELSE LET renews == SelectSeq(todo, LAMBDA x : ~x.refresh)
             refreshes == SelectSeq(todo, LAMBDA x : x.refresh)
         IN  Append(renews, r) \o refreshes

\* Lines 1242-1365: one iteration of the loop over the submitted ids.
RenewContractsClassify(p) ==
    /\ renew[p].pc = "classify"
    /\ LET loc == renew[p]
           id == Head(loc.ids)
           c == Classify(loc.rpk, loc.bh, id)
           next == IF Len(loc.ids) = 1 THEN "loop" ELSE "classify"
           r == [id |-> id, amount |-> c.amount,
                 hostPubKey |-> IF Viewable(id) THEN contracts[id].HostPublicKey ELSE "",
                 refresh |-> c.kind = "refresh"]
       IN  IF c.kind = "abort"
           THEN /\ renew' = [renew EXCEPT ![p] = RenewIdle("PeriodSpendingError")]
                /\ alerts' = DeferredAlert(loc.low)
           ELSE /\ renew' = [renew EXCEPT ![p] =
                    [loc EXCEPT
                       !.pc = next,
                       !.ids = Tail(loc.ids),
                       !.contractSet = IF c.kind = "keep" THEN Append(@, id) ELSE @,
                       !.fundsRemaining = IF c.kind \in {"none", "renew", "refresh"}
                                          THEN FundsRemaining(loc.rpk) ELSE @,
                       !.todo = IF c.kind \in {"renew", "refresh"} THEN InsertRenewal(@, r) ELSE @,
                       !.setIDs = IF c.kind \in {"renew", "refresh"} THEN @ \cup {id} ELSE @]]
                /\ UNCHANGED alerts
    /\ UNCHANGED <<storeVars, contractorVars, envVars, maintVars, monitored, broadcast,
                   wdPending, form>>

\* The head of an iteration without the select on the stop channel.
RenewEntryOutcomeNoStop(loc) ==
    IF ~walletUnlocked THEN "walletLocked"
    ELSE IF Head(loc.todo).amount > loc.fundsRemaining THEN "lowFunds"
    ELSE "renew"

\* The head of an iteration without the comparison with the funds remaining.
RenewEntryOutcomeNoFundsCheck(loc) ==
    IF stopped THEN "stopped"
    ELSE IF ~walletUnlocked THEN "walletLocked"
    ELSE "renew"

\* Lines 1376-1395 and 1440-1459: what the head of an iteration decides.
RenewEntryOutcome(loc) ==
    IF stopped THEN "stopped"
    ELSE IF ~walletUnlocked THEN "walletLocked"
    ELSE IF Head(loc.todo).amount > loc.fundsRemaining THEN "lowFunds"
    ELSE "renew"

\* The failed-renew counts left as they are.
ResetNumFailedRenewsKeepAll(setIDs) == numFailedRenews

\* Lines 1505-1518: the failed-renew counts of the ids of the two sets.
ResetNumFailedRenews(setIDs) ==
    [id \in (DOMAIN numFailedRenews) \cap setIDs |-> numFailedRenews[id]]

\* Lines 1375-1395, 1439-1459: the head of one iteration of the two loops.
RenewContractsEntry(p) ==
    /\ renew[p].pc = "loop"
    /\ renew[p].todo # << >>
    /\ LET loc == renew[p]
           o == RenewEntryOutcome(loc)
       IN  CASE o = "stopped" ->
                  /\ renew' = [renew EXCEPT ![p] = RenewIdle("stopped")]
                  /\ alerts' = DeferredAlert(loc.low)
             [] o = "walletLocked" ->
                  /\ renew' = [renew EXCEPT ![p] = RenewIdle("walletLocked")]
                  /\ alerts' = DeferredAlert(loc.low)
             [] o = "lowFunds" ->
                  /\ renew' = [renew EXCEPT ![p] = [loc EXCEPT !.low = TRUE, !.todo = Tail(@)]]
                  /\ UNCHANGED alerts
             [] OTHER ->
                  /\ renew' = [renew EXCEPT ![p] =
                       [loc EXCEPT !.pc = "managedRenew", !.cur = Head(loc.todo), !.todo = Tail(@)]]
                  /\ UNCHANGED alerts
    /\ UNCHANGED <<storeVars, contractorVars, envVars, maintVars, monitored, broadcast,
                   wdPending, form>>

\* Lines 1501-1520 and the deferred alert: the call returns its contract set.
RenewContractsReturn(p) ==
    /\ renew[p].pc = "loop"
    /\ renew[p].todo = << >>
    /\ numFailedRenews' = ResetNumFailedRenews(renew[p].setIDs)
    /\ alerts' = DeferredAlert(renew[p].low)
    /\ renew' = [renew EXCEPT ![p] = RenewIdle("ok")]
    /\ UNCHANGED <<storeVars, doubleSpentContracts, envVars, maintVars, monitored, broadcast,
                   wdPending, form>>

\* ---------------------------------------------------------- managedRenewContract
\* renter.ContractEndHeight(), lines 1400 and 1464.
ContractEndHeight(renter) ==
    renter.CurrentPeriod + renter.Allowance.Period + renter.Allowance.RenewWindow

\* modules.IsHostsFault(errRenew), line 850.
IsHostsFault(errRenew) == errRenew = "hostFault"

\* Lines 650-681: the checks of managedRenew before the wallet is used.
ManagedRenewPrecheck(rpk, hpk) ==
    IF hpk \notin DOMAIN hdb THEN "errHostNotFound"
    ELSE IF hdb[hpk].Filtered THEN "errHostBlocked"
    ELSE IF hdb[hpk].StoragePrice > maxStoragePrice THEN "errTooExpensive"
    ELSE IF hdb[hpk].MaxDuration < renters[rpk].Allowance.Period THEN "insufficientMaxDuration"
    ELSE IF checkFormContractGouging(renters[rpk].Allowance, hdb[hpk]) THEN "priceGouging"
    ELSE "nil"

\* staticContracts.Renew (line 748): the contract the store adds.
RenewedContract(id, old, funding, endHeight) ==
    [Contract(id, old.RenterPublicKey, old.HostPublicKey, blockHeight, endHeight, funding,
              IF funding > hdb[old.HostPublicKey].ContractPrice
              THEN funding - hdb[old.HostPublicKey].ContractPrice ELSE 0,
              GoodUtility)
     EXCEPT !.FileSize = old.FileSize]

\* c.numFailedRenews[id], zero for an id without entry.
FailedRenews(id) == IF id \in DOMAIN numFailedRenews THEN numFailedRenews[id] ELSE 0

\* Lines 741-747: what managedRenew finds when it acquires the old contract.
OldContractCheck(id) ==
    IF ~Viewable(id) THEN "errContractNotFound"
    ELSE IF ~contracts[id].Utility.GoodForRenew THEN "errContractNotGFR"
    ELSE "nil"

\* Line 746: the handle of an old contract found not GoodForRenew.
AcquiredAfterNotGFR(id, p) == MapPut(acquired, id, p)

\* managedRenewContract up to line 841: the session with the host (lines
\* 806-832, a failure returns at once) and managedRenew (lines 640-784).
\* outcome is what the wallet and the host do.
ManagedRenew(p, outcome) ==
    /\ renew[p].pc = "managedRenew"
    /\ LET loc == renew[p]
           id == loc.cur.id
           pre == ManagedRenewPrecheck(loc.rpk, loc.cur.hostPubKey)
           fail(e) == renew' = [renew EXCEPT ![p] =
                         [loc EXCEPT !.pc = "post", !.errRenew = e, !.newID = 0,
                                     !.wallet = ManagedRenewWallet(e)]]
       IN  IF outcome = "sessionErr"
           THEN /\ renew' = [renew EXCEPT ![p] =
                      [loc EXCEPT !.pc = "after", !.fundsSpent = 0, !.err = "sessionErr"]]
                /\ UNCHANGED <<storeVars, nextID, monitored>>
           ELSE IF pre # "nil"
           THEN fail(pre) /\ UNCHANGED <<storeVars, nextID, monitored>>
           ELSE IF outcome \in {"addressErr", "seedErr", "startErr", "walletErr"}
           THEN fail(outcome) /\ UNCHANGED <<storeVars, nextID, monitored>>
           ELSE IF OldContractCheck(id) = "errContractNotFound"
           THEN fail("errContractNotFound") /\ UNCHANGED <<storeVars, nextID, monitored>>
           ELSE /\ Free(id)
                /\ IF OldContractCheck(id) = "errContractNotGFR"
                   THEN /\ fail("errContractNotGFR")
                        /\ acquired' = AcquiredAfterNotGFR(id, p)
                        /\ UNCHANGED <<contracts, oldContracts, renewedFrom, renewedTo,
                                       pubKeysToContractID, nextID, monitored>>
                   ELSE IF outcome = "hostFault"
                   THEN /\ FailedRenews(id) < MaxFailedRenews
                        /\ fail("hostFault")
                        /\ UNCHANGED <<storeVars, nextID, monitored>>
                   ELSE IF outcome = "monitorErr"
                   THEN /\ nextID <= MaxContracts
                        /\ contracts' = MapPut(contracts, nextID,
                               RenewedContract(nextID, contracts[id], loc.cur.amount,
                                               ContractEndHeight(renters[loc.rpk])))
                        /\ nextID' = nextID + 1
                        /\ fail("monitorErr")
                        /\ UNCHANGED <<acquired, oldContracts, renewedFrom, renewedTo,
                                       pubKeysToContractID, monitored>>
                   ELSE /\ nextID <= MaxContracts
                        /\ LET new == RenewedContract(nextID, contracts[id], loc.cur.amount,
                                                      ContractEndHeight(renters[loc.rpk]))
                           IN  /\ contracts' = MapPut(contracts, nextID, new)
                               /\ pubKeysToContractID' = MapPut(pubKeysToContractID, PairOf(new), nextID)
                        /\ monitored' = monitored \cup {nextID}
                        /\ nextID' = nextID + 1
                        /\ renew' = [renew EXCEPT ![p] =
                               [loc EXCEPT !.pc = "post", !.errRenew = "nil", !.newID = nextID,
                                           !.wallet = ManagedRenewWallet("nil")]]
                        /\ UNCHANGED <<acquired, oldContracts, renewedFrom, renewedTo>>
    /\ UNCHANGED <<contractorVars, blockHeight, synced, stopped, running, renters, hdb, maxFee,
                   walletUnlocked, maintVars, alerts, broadcast, wdPending, form>>

\* Lines 899-901: the utility of the old contract after the renewal.
RenewedOldUtility(oldUtility) ==
    [oldUtility EXCEPT !.GoodForRenew = FALSE, !.GoodForUpload = FALSE, !.Locked = TRUE]

\* No number of failed renewals makes the contract replaced.
ReplaceContractNever(failed, bh, allowance, md) == FALSE

\* Lines 859-865: the contract has to be replaced.
ReplaceContract(failed, bh, allowance, md) ==
    /\ md.ID \in DOMAIN failed
    /\ bh + (allowance.RenewWindow \div 2) >= md.EndHeight
    /\ failed[md.ID] >= consecutiveRenewalsBeforeReplacement

\* The failed renewals when every failure is tallied.
TallyEveryFailedRenew(errRenew, id) == MapPut(numFailedRenews, id, FailedRenews(id) + 1)

\* Lines 850-856: the failed renewals after errRenew.
TallyFailedRenew(errRenew, id) ==
    IF IsHostsFault(errRenew)
    THEN MapPut(numFailedRenews, id, FailedRenews(id) + 1)
    ELSE numFailedRenews

\* Lines 842-906 of managedRenewContract: the old contract is acquired; a
\* failed renewal is tallied, a successful one updates the two utilities.
ManagedRenewContractPost(p) ==
    /\ renew[p].pc = "post"
    /\ LET loc == renew[p]
           id == loc.cur.id
           back(spent, e) == renew' = [renew EXCEPT ![p] =
                                [loc EXCEPT !.pc = "after", !.fundsSpent = spent, !.err = e]]
       IN  IF ~Viewable(id)
           THEN back(0, "errContractNotFound") /\ UNCHANGED <<contracts, acquired, numFailedRenews>>
           ELSE /\ Free(id)
                /\ IF loc.errRenew # "nil"
                   THEN LET failed == TallyFailedRenew(loc.errRenew, id)
                        IN  /\ numFailedRenews' = failed
                            /\ contracts' =
                                 IF ReplaceContract(failed, loc.bh, renters[loc.rpk].Allowance, contracts[id])
                                 THEN callUpdateUtility(contracts, id, LockedUtility)
                                 ELSE contracts
                            /\ back(0, loc.errRenew)
                            /\ UNCHANGED acquired
                   ELSE IF ~Viewable(loc.newID)
                   THEN back(loc.cur.amount, "nil") /\ UNCHANGED <<contracts, acquired, numFailedRenews>>
                   ELSE /\ Free(loc.newID)
                        /\ contracts' = callUpdateUtility(
                                            callUpdateUtility(contracts, loc.newID, GoodUtility),
                                            id, RenewedOldUtility(contracts[id].Utility))
                        /\ acquired' = MapPut(acquired, id, p)
                        /\ renew' = [renew EXCEPT ![p] = [loc EXCEPT !.pc = "link"]]
                        /\ UNCHANGED numFailedRenews
    /\ UNCHANGED <<oldContracts, renewedFrom, renewedTo, pubKeysToContractID,
                   doubleSpentContracts, envVars, maintVars, extVars, form>>

\* Line 912: c.renewedFrom[newContract.ID] = id.
RenewedFromLinked(newID, id) == MapPut(renewedFrom, newID, id)

\* Lines 910-936: the lineage is written, the old contract archived and
\* deleted, its last revision sent.
ManagedRenewContractLink(p) ==
    /\ renew[p].pc = "link"
    /\ LET loc == renew[p]
           id == loc.cur.id
       IN  /\ renewedFrom' = RenewedFromLinked(loc.newID, id)
           /\ renewedTo' = MapPut(renewedTo, id, loc.newID)
           /\ oldContracts' = MapPut(oldContracts, id, contracts[id])
           /\ contracts' = MapDel(contracts, id)
           /\ acquired' = MapDel(acquired, id)
           /\ broadcast' = broadcast \cup {id}
           /\ renew' = [renew EXCEPT ![p] =
                  [loc EXCEPT !.pc = "after", !.fundsSpent = loc.cur.amount, !.err = "nil"]]
    /\ UNCHANGED <<pubKeysToContractID, contractorVars, envVars, maintVars, alerts, monitored,
                   wdPending, form>>

\* The call returning with the error of a failed renewal.
RenewContractsAfterReturnsError(p) ==
    /\ renew[p].pc = "after"
    /\ LET loc == renew[p]
           setGood == loc.err = "nil" /\ Viewable(loc.newID)
       IN  /\ setGood => Free(loc.newID)
           /\ contracts' = IF setGood THEN callUpdateUtility(contracts, loc.newID, GoodUtility)
                           ELSE contracts
           /\ renew' = [renew EXCEPT ![p] =
                  IF loc.err # "nil" THEN RenewIdle(loc.err)
                  ELSE [loc EXCEPT !.pc = "loop",
                              !.fundsRemaining = IF @ >= loc.fundsSpent THEN @ - loc.fundsSpent ELSE 0,
                              !.contractSet = Append(@, loc.newID),
                              !.cur = NoRenewal, !.newID = 0, !.errRenew = "nil",
                              !.fundsSpent = 0, !.err = "nil", !.wallet = NoWallet]]
    /\ UNCHANGED <<acquired, oldContracts, renewedFrom, renewedTo, pubKeysToContractID,
                   contractorVars, envVars, maintVars, extVars, form>>

\* Lines 1401-1437 and 1465-1498: the funds are taken off, and the new
\* contract of a renewal without error is set good for upload and renew.
RenewContractsAfter(p) ==
    /\ renew[p].pc = "after"
    /\ LET loc == renew[p]
           setGood == loc.err = "nil" /\ Viewable(loc.newID)
       IN  /\ setGood => Free(loc.newID)
           /\ contracts' = IF setGood THEN callUpdateUtility(contracts, loc.newID, GoodUtility)
                           ELSE contracts
           /\ renew' = [renew EXCEPT ![p] =
                  [loc EXCEPT !.pc = "loop",
                              !.fundsRemaining = IF @ >= loc.fundsSpent THEN @ - loc.fundsSpent ELSE 0,
                              !.contractSet = IF loc.err = "nil" THEN Append(@, loc.newID) ELSE @,
                              !.cur = NoRenewal, !.newID = 0, !.errRenew = "nil",
                              !.fundsSpent = 0, !.err = "nil", !.wallet = NoWallet]]
    /\ UNCHANGED <<acquired, oldContracts, renewedFrom, renewedTo, pubKeysToContractID,
                   contractorVars, envVars, maintVars, extVars, form>>

\* ---------------------------------------------------------------- FormContracts
\* Constants of the contractor package used at lines 1109, 1110 and 1138.
ContractFeeFundingMulFactor == 10
MaxInitialContractFundingMulFactor == 2
MaxInitialContractFundingDivFactor == 3
MinInitialContractFundingDivFactor == 20

\* A caller outside FormContracts; result is the error its last call returned.
FormIdle(result) ==
    [pc |-> "idle", rpk |-> "", bh |-> 0, hosts |-> << >>, needed |-> 0,
     fundsRemaining |-> 0, low |-> FALSE, contractSet |-> << >>, allContracts |-> {},
     host |-> "", funds |-> 0, newID |-> 0, wallet |-> NoWallet, result |-> result]

\* No host is kept from the selection.
BlacklistNone(rpk) == {}

\* staticContracts.ByRenter(rpk), lines 1077 and 1097.
ByRenter(rpk) == {id \in DOMAIN contracts : contracts[id].RenterPublicKey = rpk}

\* Lines 1075-1085: the contracts good for upload, at most Hosts of them,
\* in the order of the walk.
UploadContractSets(rpk) ==
    LET gfu == {id \in ByRenter(rpk) : contracts[id].Utility.GoodForUpload}
        n == renters[rpk].Allowance.Hosts
    IN  UNION {Perms(S) : S \in {T \in SUBSET gfu :
                   Cardinality(T) = IF Cardinality(gfu) < n THEN Cardinality(gfu) ELSE n}}

\* Lines 1097-1105: the hosts the renter has a contract with.
Blacklist(rpk) == {contracts[id].HostPublicKey : id \in ByRenter(rpk)}

\* hdb.RandomHostsWithLimits (line 1113): hosts of the directory that are
\* not filtered and not on the blacklist, in any order.
RandomHostsWithLimits(blacklist) ==
    Perms({h \in DOMAIN hdb : ~hdb[h].Filtered /\ h \notin blacklist})

\* The funding of a contract with the host, not clamped.
ContractFundsUnclamped(allowance, host) ==
    (host.ContractPrice + maxFee * EstimatedFileContractTransactionSetSize) * ContractFeeFundingMulFactor

\* Lines 1109-1110 and 1138-1150: the funding of a contract with the host.
ContractFunds(allowance, host) ==
    LET maxInitialContractFunds ==
            ((allowance.Funds \div allowance.Hosts) * MaxInitialContractFundingMulFactor)
                \div MaxInitialContractFundingDivFactor
        minInitialContractFunds ==
            (allowance.Funds \div allowance.Hosts) \div MinInitialContractFundingDivFactor
        txnFee == maxFee * EstimatedFileContractTransactionSetSize
        raw == (host.ContractPrice + txnFee) * ContractFeeFundingMulFactor
        capped == IF raw > maxInitialContractFunds THEN maxInitialContractFunds ELSE raw
    IN  IF capped < minInitialContractFunds THEN minInitialContractFunds ELSE capped

\* Lines 1024-1121: the call up to the loop over the hosts.
FormContractsCall(q, rpk) ==
    /\ "form" \in running
    /\ form[q].pc = "idle"
    /\ IF ~synced
       THEN form' = [form EXCEPT ![q] = FormIdle("notSynced")] /\ UNCHANGED alerts
       ELSE IF rpk \notin DOMAIN renters
       THEN form' = [form EXCEPT ![q] = FormIdle("ErrRenterNotFound")] /\ UNCHANGED alerts
       ELSE IF renters[rpk].Allowance.Hosts = 0
       THEN /\ form' = [form EXCEPT ![q] = FormIdle("zeroHosts")]
            /\ alerts' = DeferredAlert(FALSE)
       ELSE IF stopped
       THEN /\ form' = [form EXCEPT ![q] = FormIdle("PeriodSpendingError")]
            /\ alerts' = DeferredAlert(FALSE)
       ELSE \E set \in UploadContractSets(rpk) :
              LET needed == renters[rpk].Allowance.Hosts - Len(set)
                  blacklist == Blacklist(rpk)
              IN  IF needed <= 0
                  THEN /\ form' = [form EXCEPT ![q] = FormIdle("ok")]
                       /\ alerts' = DeferredAlert(FALSE)
                  ELSE \E hosts \in RandomHostsWithLimits(blacklist) :
                         /\ form' = [form EXCEPT ![q] =
                                [FormIdle("running") EXCEPT !.contractSet = set,
                                    !.pc = "loop", !.rpk = rpk, !.bh = blockHeight,
                                    !.hosts = hosts, !.needed = needed,
                                    !.allContracts = ByRenter(rpk),
                                    !.fundsRemaining = FundsRemaining(rpk)]]
                         /\ UNCHANGED alerts
    /\ UNCHANGED <<storeVars, contractorVars, envVars, maintVars, monitored, broadcast,
                   wdPending, renew>>

\* The head of an iteration that goes on when no more contracts are needed.
FormEntryOutcomeNoBreak(loc) ==
    IF loc.hosts = << >> THEN "done"
    ELSE IF stopped THEN "stopped"
    ELSE IF ~walletUnlocked THEN "walletLocked"
    ELSE IF loc.fundsRemaining < ContractFunds(renters[loc.rpk].Allowance, hdb[Head(loc.hosts)])
    THEN "lowFunds"
    ELSE "form"

\* Lines 1124-1163: what the head of an iteration decides.
FormEntryOutcome(loc) ==
    IF loc.hosts = << >> THEN "done"
    ELSE IF stopped THEN "stopped"
    ELSE IF loc.needed <= 0 THEN "done"
    ELSE IF ~walletUnlocked THEN "walletLocked"
    ELSE IF loc.fundsRemaining < ContractFunds(renters[loc.rpk].Allowance, hdb[Head(loc.hosts)])
    THEN "lowFunds"
    ELSE "form"

\* Lines 1124-1163 and 1202: the head of one iteration, or the return.
FormContractsEntry(q) ==
    /\ form[q].pc = "loop"
    /\ LET loc == form[q]
           o == FormEntryOutcome(loc)
       IN  CASE o = "stopped" ->
                  /\ form' = [form EXCEPT ![q] = FormIdle("stopped")]
                  /\ alerts' = DeferredAlert(loc.low)
             [] o = "walletLocked" ->
                  /\ form' = [form EXCEPT ![q] = FormIdle("walletLocked")]
                  /\ alerts' = DeferredAlert(loc.low)
             [] o = "lowFunds" ->
                  /\ form' = [form EXCEPT ![q] = FormIdle("ok")]
                  /\ alerts' = DeferredAlert(TRUE)
             [] o = "done" ->
                  /\ form' = [form EXCEPT ![q] = FormIdle("ok")]
                  /\ alerts' = DeferredAlert(loc.low)
             [] OTHER ->
                  /\ form' = [form EXCEPT ![q] =
                       [loc EXCEPT !.pc = "managedNewContract", !.host = Head(loc.hosts),
                                   !.hosts = Tail(@), !.wallet = NoWallet,
                                   !.funds = ContractFunds(renters[loc.rpk].Allowance,
                                                           hdb[Head(loc.hosts)])]]
                  /\ UNCHANGED alerts
    /\ UNCHANGED <<storeVars, contractorVars, envVars, maintVars, monitored, broadcast,
                   wdPending, renew>>

\* Lines 353-388: the checks of managedNewContract before the wallet is used.
ManagedNewContractPrecheck(rpk, hpk) ==
    IF rpk \notin DOMAIN renters THEN "ErrRenterNotFound"
    ELSE IF hdb[hpk].StoragePrice > maxStoragePrice THEN "errTooExpensive"
    ELSE IF hdb[hpk].MaxDuration < renters[rpk].Allowance.Period THEN "insufficientMaxDuration"
    ELSE IF checkFormContractGouging(renters[rpk].Allowance, hdb[hpk]) THEN "priceGouging"
    ELSE "nil"

\* managedNewContract, lines 352-477.  outcome is what the wallet and the
\* host do.  A failed call goes on with the next host (line 1170).
ManagedNewContract(q, outcome) ==
    /\ form[q].pc = "managedNewContract"
    /\ LET loc == form[q]
           endHeight == loc.bh + renters[loc.rpk].Allowance.Period
                               + renters[loc.rpk].Allowance.RenewWindow
           price == hdb[loc.host].ContractPrice
           new == Contract(nextID, loc.rpk, loc.host, blockHeight, endHeight, loc.funds,
                           IF loc.funds > price THEN loc.funds - price ELSE 0, GoodUtility)
           pre == ManagedNewContractPrecheck(loc.rpk, loc.host)
           continue(e) == form' = [form EXCEPT ![q] =
                             [loc EXCEPT !.pc = "loop", !.host = "", !.funds = 0,
                                         !.wallet = ManagedNewContractWallet(e)]]
       IN  IF pre # "nil"
           THEN /\ continue(pre)
                /\ UNCHANGED <<contracts, pubKeysToContractID, monitored, nextID>>
           ELSE IF outcome \notin {"ok", "monitorErr"}
           THEN /\ continue(outcome)
                /\ UNCHANGED <<contracts, pubKeysToContractID, monitored, nextID>>
           ELSE IF outcome = "monitorErr"
           THEN /\ nextID <= MaxContracts
                /\ contracts' = MapPut(contracts, nextID, new)
                /\ nextID' = nextID + 1
                /\ continue("monitorErr")
                /\ UNCHANGED <<pubKeysToContractID, monitored>>
           ELSE /\ nextID <= MaxContracts
                /\ contracts' = MapPut(contracts, nextID, new)
                /\ monitored' = monitored \cup {nextID}
                /\ nextID' = nextID + 1
                /\ IF PairOf(new) \in DOMAIN pubKeysToContractID
                   THEN continue("exists") /\ UNCHANGED pubKeysToContractID
                   ELSE /\ pubKeysToContractID' = MapPut(pubKeysToContractID, PairOf(new), nextID)
                        /\ form' = [form EXCEPT ![q] =
                               [loc EXCEPT !.pc = "after", !.newID = nextID,
                                           !.wallet = ManagedNewContractWallet("nil")]]
    /\ UNCHANGED <<acquired, oldContracts, renewedFrom, renewedTo, contractorVars, blockHeight,
                   synced, stopped, running, renters, hdb, maxFee, walletUnlocked, maintVars, alerts,
                   broadcast, wdPending, renew>>

\* Lines 1172-1199: the funds are taken off and the new contract is set
\* good for upload and renew.
FormContractsAfter(q) ==
    /\ form[q].pc = "after"
    /\ LET loc == form[q]
           setGood == Viewable(loc.newID)
       IN  /\ setGood => Free(loc.newID)
           /\ contracts' = IF setGood THEN callUpdateUtility(contracts, loc.newID, GoodUtility)
                           ELSE contracts
           /\ form' = [form EXCEPT ![q] =
                  [loc EXCEPT !.pc = "loop",
                              !.fundsRemaining = IF @ >= loc.funds THEN @ - loc.funds ELSE 0,
                              !.needed = @ - 1,
                              !.contractSet = Append(@, loc.newID),
                              !.host = "", !.funds = 0, !.newID = 0, !.wallet = NoWallet]]
    /\ UNCHANGED <<acquired, oldContracts, renewedFrom, renewedTo, pubKeysToContractID,
                   contractorVars, envVars, maintVars, extVars, renew>>

\* ------------------------------------------------------------- initial data
\* The renters table: two renters with the same allowance.
Allowance(funds, hosts) ==
    [Funds |-> funds, Hosts |-> hosts, Period |-> 3, RenewWindow |-> 2,
     MaxRPCPrice |-> 0, MaxContractPrice |-> 0, MaxSectorAccessPrice |-> 0]
Renter(rpk, funds, hosts) ==
    [PublicKey |-> rpk, Email |-> rpk, CurrentPeriod |-> 3, Allowance |-> Allowance(funds, hosts)]
InitRenters == [r \in RenterKeys |-> IF r = "r1" THEN Renter(r, 8, 2) ELSE Renter(r, 8, 1)]
HostEntry(score, violates) ==
    [Filtered |-> FALSE, Score |-> score, IPViolation |-> violates,
     ContractPrice |-> score, StoragePrice |-> 0, UploadBandwidthPrice |-> 0,
     DownloadBandwidthPrice |-> 0, BaseRPCPrice |-> 0, SectorAccessPrice |-> 0,
     MaxDuration |-> 3, Version |-> MinimumSupportedRenterHostProtocolVersion]
InitHdb == [h \in HostKeys |-> HostEntry(IF h = "h1" THEN 1 ELSE 2, FALSE)]

\* A store as loaded from disk: n contracts of any renter, host, start
\* height and utility; the total cost tells the contracts apart.
LoadedContract(id) ==
    {Contract(id, r, h, s, s + 5, id, id, u) :
        r \in RenterKeys, h \in HostKeys, s \in 1..2, u \in {GoodUtility, LockedUtility}}
LoadedStores(n) ==
    UNION {{f \in [1..k -> UNION {LoadedContract(id) : id \in 1..k}] : \A id \in 1..k : f[id].ID = id} : k \in 0..n}

InitIdle ==
    /\ acquired = EmptyMap
    /\ oldContracts = EmptyMap
    /\ renewedFrom = EmptyMap
    /\ renewedTo = EmptyMap
    /\ numFailedRenews = EmptyMap
    /\ doubleSpentContracts = EmptyMap
    /\ synced = TRUE
    /\ stopped = FALSE
    /\ maintenanceLock = "free"
    /\ alerts = {}
    /\ renters = InitRenters
    /\ hdb = InitHdb
    /\ maxFee = 0
    /\ mTodo = [t \in MaintThreads |-> << >>]
    /\ mKeys = [t \in MaintThreads |-> EmptyMap]
    /\ walletUnlocked = TRUE
    /\ wdPending = {}
    /\ broadcast = {}

\* SpecDup: managedCheckForDuplicates run by one thread on any loaded store.
InitDup ==
    /\ InitIdle
    /\ running = {"maintenance"}
    /\ \E st \in LoadedStores(MaxLoaded) : contracts = st
    /\ pubKeysToContractID = EmptyMap
    /\ blockHeight = 2
    /\ nextID = MaxContracts + 1
    /\ mpc = [t \in MaintThreads |-> IF t = "m1" THEN "dedupe" ELSE "idle"]
    /\ monitored = DOMAIN contracts
    /\ renew = [p \in RenewCallers |-> RenewIdle("none")]
    /\ form = [q \in FormCallers |-> FormIdle("none")]
    /\ interrupt = "idle"

NextDup ==
    \/ ManagedCheckForDuplicatesViewAll("m1")
    \/ ManagedCheckForDuplicatesIter("m1")
    \/ ManagedCheckForDuplicatesDone("m1")

SpecDup == InitDup /\ [][NextDup]_vars

\* Spec: the entry points, a maintenance thread and the watchdog run
\* concurrently on a store loaded from disk.
MaxIdList == 2
IdLists == UNION {[1..n -> IDs] : n \in 0..MaxIdList}
LoadedMain ==
    [id \in 1..2 |->
        IF id = 1 THEN Contract(1, "r1", "h1", 0, 5, 2, 1, GoodUtility)
        ELSE Contract(2, "r2", "h2", 3, 8, 2, 0, Utility(FALSE, TRUE, FALSE))]
Parties == {"renew", "form", "maintenance", "watchdog", "consensus", "stop"}
MaxParties == 2

Init ==
    /\ InitIdle
    /\ contracts = LoadedMain
    /\ running \in {S \in SUBSET Parties : Cardinality(S) = MaxParties}
    /\ pubKeysToContractID = [k \in {PairOf(LoadedMain[i]) : i \in 1..2} |->
                                 CHOOSE i \in 1..2 : PairOf(LoadedMain[i]) = k]
    /\ blockHeight = 3
    /\ nextID = 3
    /\ mpc = [t \in MaintThreads |-> "idle"]
    /\ monitored = DOMAIN contracts
    /\ renew = [p \in RenewCallers |-> RenewIdle("none")]
    /\ form = [q \in FormCallers |-> FormIdle("none")]
    /\ interrupt = "idle"

RenewNext(p) ==
    \/ \E rpk \in RenterKeys \cup {"rx"}, ids \in IdLists : RenewContractsCall(p, rpk, ids)
    \/ RenewContractsClassify(p)
    \/ RenewContractsEntry(p)
    \/ RenewContractsReturn(p)
    \/ \E outcome \in {"ok", "sessionErr", "hostFault", "walletErr"} : ManagedRenew(p, outcome)
    \/ ManagedRenewContractPost(p)
    \/ ManagedRenewContractLink(p)
    \/ RenewContractsAfter(p)

FormNext(q) ==
    \/ \E rpk \in RenterKeys \cup {"rx"} : FormContractsCall(q, rpk)
    \/ FormContractsEntry(q)
    \/ \E outcome \in {"ok", "fail"} : ManagedNewContract(q, outcome)
    \/ FormContractsAfter(q)

MaintenanceNext(t) ==
    \/ MaintenanceStart(t)
    \/ ManagedArchiveContracts(t)
    \/ ManagedCheckForDuplicatesViewAll(t)
    \/ ManagedCheckForDuplicatesIter(t)
    \/ ManagedCheckForDuplicatesDone(t)
    \/ ManagedUpdatePubKeysToContractIDMap(t)
    \/ ManagedPruneRedundantAddressRange(t)
    \/ MaintenanceUpdateContracts(t)
    \/ ManagedLimitGFUHosts(t)

Next ==
    \/ RenewNext("ra")
    \/ FormNext("fa")
    \/ MaintenanceNext("m1")
    \/ \E id \in IDs : CallNotifyDoubleSpend(id)
    \/ \E id \in IDs : CallNotifyDoubleSpendMark(id)
    \/ AdvanceBlock
    \/ CloseStopChan

Spec == Init /\ [][Next]_vars

\* ------------------------------------------------------------------ claims
DedupDone == mpc["m1"] = "pubkeys"
LivePairsUnique ==
    \A a, b \in DOMAIN contracts : PairOf(contracts[a]) = PairOf(contracts[b]) => a = b
SurvivorIsNewest ==
    \A a \in DOMAIN contracts : \A o \in DOMAIN oldContracts :
        PairOf(oldContracts[o]) = PairOf(contracts[a])
            => oldContracts[o].StartHeight <= contracts[a].StartHeight
RemovedAreArchived ==
    \A id \in (DOMAIN contracts) \ (DOMAIN contracts') :
        id \in DOMAIN oldContracts' /\ oldContracts'[id] = contracts[id]
ArchiveKept ==
    \A id \in DOMAIN oldContracts :
        id \in DOMAIN oldContracts' /\ oldContracts'[id] = oldContracts[id]

\* C1: when managedCheckForDuplicates has run to its end on a loaded store,
\* no two live contracts share a (renter, host) pair, no archived contract
\* of a pair started later than the pair's live contract, and every
\* contract a step removes from the store is in oldContracts from then on
\* with the metadata it had in the store.
C1_DedupPostcondition ==
    /\ [](DedupDone => (LivePairsUnique /\ SurvivorIsNewest))
    /\ [][RemovedAreArchived /\ ArchiveKept]_vars
\* Three contracts of one pair were deduplicated: two are archived.
C1_Witness ==
    /\ DedupDone
    /\ Cardinality(DOMAIN oldContracts) = 2
    /\ \A o \in DOMAIN oldContracts : \A a \in DOMAIN contracts :
          PairOf(oldContracts[o]) = PairOf(contracts[a])


\* The step with which managedRenewContract returns a nil error to p.
RenewalReturnsNil(p) ==
    /\ renew[p].pc \in {"post", "link"}
    /\ renew'[p].pc = "after"
    /\ renew'[p].err = "nil"

OldLockedNext(p) ==
    LET id == renew[p].cur.id
    IN  /\ id \in DOMAIN contracts' => contracts'[id].Utility = Utility(FALSE, FALSE, TRUE)
        /\ id \notin DOMAIN contracts' =>
              /\ id \in DOMAIN oldContracts'
              /\ oldContracts'[id].Utility = Utility(FALSE, FALSE, TRUE)

\* C3: when managedRenewContract returns a nil error, the old contract,
\* live or archived, is not good for upload, not good for renew and locked,
\* and the new contract is live, good for upload, good for renew and not
\* locked (a new contract the watchdog has reported double-spent since is
\* left aside: MarkContractBad has locked it).
C3_RenewalUtilities ==
    [][\A p \in RenewCallers : RenewalReturnsNil(p) =>
          /\ OldLockedNext(p)
          /\ renew[p].newID \in DOMAIN contracts'
          /\ \/ contracts'[renew[p].newID].Utility = Utility(TRUE, TRUE, FALSE)
             \/ renew[p].newID \in DOMAIN doubleSpentContracts']_vars

\* C4: a live contract that is locked and neither good for upload nor good
\* for renew keeps that utility in every step.
C4_LockedIsTerminal ==
    [][\A id \in (DOMAIN contracts) \cap (DOMAIN contracts') :
          contracts[id].Utility = LockedUtility => contracts'[id].Utility = LockedUtility]_vars

\* C5: a contract handle is held only by an operation that is between its
\* Acquire and its Return or Delete; managedRenew has returned when the
\* caller is at line 842.
C5_HandlesReleased ==
    \A id \in DOMAIN acquired :
        \E p \in RenewCallers : acquired[id] = p /\ renew[p].pc = "link"


\* The walk back along renewedFrom from id meets no id of seen again.
RECURSIVE NoRevisit(_, _)
NoRevisit(id, seen) ==
    IF id \in seen THEN FALSE
    ELSE IF id \notin DOMAIN renewedFrom THEN TRUE
    ELSE NoRevisit(renewedFrom[id], seen \cup {id})
\* The steps of the walk back from id, counted from n, given up past the
\* number of contracts ever formed.
RECURSIVE WalkLength(_, _)
WalkLength(id, n) ==
    IF id \notin DOMAIN renewedFrom \/ n >= nextID THEN n
    ELSE WalkLength(renewedFrom[id], n + 1)

\* C6: in every reachable state the walk back along renewedFrom from any
\* contract id revisits no id and ends within as many steps as contracts
\* were ever formed (nextID - 1).
C6_RenewedFromAcyclic ==
    \A id \in IDs : NoRevisit(id, {}) /\ WalkLength(id, 0) <= nextID - 1

\* A RenewContracts call that got past line 1233 returns.
RenewBatchEnds(p) == renew[p].pc \in {"classify", "loop"} /\ renew'[p].pc = "idle"
\* A FormContracts call that got past line 1047 returns: from the loop over
\* the hosts, or before it (lines 1052, 1063, 1089).
FormBatchEnds(q) ==
    /\ form'[q].pc = "idle"
    /\ \/ form[q].pc = "loop"
       \/ /\ form[q].pc = "idle"
          /\ form'[q] # form[q]
          /\ form'[q].result \in {"zeroHosts", "PeriodSpendingError", "ok"}
\* The batch of FormContracts meets low funds in the step that ends it (line
\* 1159 breaks out of the loop).
FormLowFunds(q) == form[q].pc = "loop" /\ FormEntryOutcome(form[q]) = "lowFunds"
LowFundsAlertRegistered(a) == Cardinality(a \cap {AlertIDRenterAllowanceLowFunds}) = 1
NoLowFundsAlert(a) == AlertIDRenterAllowanceLowFunds \notin a

\* C7: when a FormContracts or RenewContracts batch returns, the
\* RenterAllowanceLowFunds alert is registered exactly once if the batch met a
\* low-funds condition, and is not registered if it met none.
C7_AlertIdempotence ==
    [][/\ \A p \in RenewCallers : RenewBatchEnds(p) =>
             IF renew[p].low THEN LowFundsAlertRegistered(alerts') ELSE NoLowFundsAlert(alerts')
       /\ \A q \in FormCallers : FormBatchEnds(q) =>
             IF FormLowFunds(q) THEN LowFundsAlertRegistered(alerts') ELSE NoLowFundsAlert(alerts')]_vars
\* A RenewContracts batch that skipped an entry for low funds has returned
\* and the alert is registered, with no FormContracts call in the run.
C7_Witness ==
    /\ "form" \notin running
    /\ renew["ra"].pc = "idle" /\ renew["ra"].result = "ok"
    /\ LowFundsAlertRegistered(alerts)

\* The renewal of renew[p].cur is in the second half of the renew window.
SecondHalfOfWindow(p) ==
    /\ renew[p].cur.id \in DOMAIN contracts
    /\ renew[p].bh + (renters[renew[p].rpk].Allowance.RenewWindow \div 2)
          >= contracts[renew[p].cur.id].EndHeight
\* managedRenewContract returns an error for a contract of the store: the
\* session fails (lines 807-810), or managedRenew has failed (line 884).
RenewalFails(p) ==
    /\ renew[p].cur.id \in DOMAIN contracts
    /\ \/ renew[p].pc = "managedRenew" /\ renew'[p].pc = "after" /\ renew'[p].err # "nil"
       \/ renew[p].pc = "post" /\ renew[p].errRenew # "nil" /\ renew'[p].pc = "after"
\* managedRenew has failed through the fault of the host.
HostFaultFails(p) ==
    /\ renew[p].cur.id \in DOMAIN contracts
    /\ renew[p].pc = "post" /\ IsHostsFault(renew[p].errRenew) /\ renew'[p].pc = "after"
\* The failure is counted, and the third one locks the contract.
CountedAndLocked(p) ==
    LET id == renew[p].cur.id
    IN  /\ id \in DOMAIN numFailedRenews'
        /\ numFailedRenews'[id] = FailedRenews(id) + 1
        /\ numFailedRenews'[id] >= consecutiveRenewalsBeforeReplacement =>
              /\ id \in DOMAIN contracts'
              /\ contracts'[id].Utility = LockedUtility
\* A locked contract is put in neither the renew set nor the refresh set.
LockedExcluded ==
    \A id \in DOMAIN contracts, rpk \in RenterKeys, bh \in 0..MaxHeight :
        contracts[id].Utility = LockedUtility =>
            Classify(rpk, bh, id).kind \notin {"renew", "refresh"}

\* C8 (as stated): every failed renewal of a contract in the second half of
\* the renew window is counted, the third one leaves the contract Locked, and
\* a Locked contract is in neither set of the next RenewContracts call.
C8_ThreeFailuresLock ==
    [][/\ \A p \in RenewCallers : RenewalFails(p) /\ SecondHalfOfWindow(p) => CountedAndLocked(p)
       /\ LockedExcluded']_vars

\* C8 (amended): every renewal in the second half of the window that
\* managedRenew fails through the fault of the host is counted and the third
\* counted one leaves the contract Locked; the count of a contract is kept by
\* every step but such a failure and the return of a RenewContracts call,
\* which keeps the counts of the contracts of its two sets; a Locked contract
\* is in neither set of the next RenewContracts call.
C8_HostFaultLockout ==
    [][/\ \A p \in RenewCallers :
             /\ HostFaultFails(p) /\ SecondHalfOfWindow(p) => CountedAndLocked(p)
             /\ renew[p].pc = "loop" /\ renew'[p].pc = "idle" /\ renew'[p].result = "ok" =>
                   \A id \in renew[p].setIDs : FailedRenews(id)' = FailedRenews(id)
       /\ (\A p \in RenewCallers :
               ~HostFaultFails(p)
               /\ ~(renew[p].pc = "loop" /\ renew'[p].pc = "idle" /\ renew'[p].result = "ok"))
             => numFailedRenews' = numFailedRenews
       /\ LockedExcluded']_vars
\* The third failure of contract 1 through the fault of the host, in the
\* third call, has locked it.
C8_Witness ==
    \E p \in RenewCallers :
        /\ renew[p].pc = "after" /\ renew[p].err = "hostFault"
        /\ renew[p].cur.id \in DOMAIN contracts
        /\ FailedRenews(renew[p].cur.id) = consecutiveRenewalsBeforeReplacement
        /\ renew[p].ids = << >> /\ renew[p].setIDs = {renew[p].cur.id} /\ renew[p].todo = << >>
        /\ contracts[renew[p].cur.id].Utility = LockedUtility

\* C9 (as stated): once the stop channel is closed, no managedRenewContract
\* call starts, and a RenewContracts call that has renew or refresh entries
\* returns the stopped error.
C9_NoCallAfterClose ==
    [][\A p \in RenewCallers : stopped =>
          /\ renew[p].pc = "managedRenew" => renew'[p].pc = "managedRenew"
          /\ renew[p].setIDs # {} /\ renew[p].pc = "loop" /\ renew'[p].pc = "idle" =>
                renew'[p].result = "stopped"]_vars

\* C9 (amended): an iteration over the renew or refresh entries that begins
\* with the stop channel closed returns the stopped error and calls
\* managedRenewContract neither for its entry nor for a later one; with no
\* entry left the call returns.
C9_StopAtIterationHead ==
    [][\A p \in RenewCallers : stopped /\ renew[p].pc = "loop" /\ renew'[p] # renew[p] =>
          /\ renew'[p].pc = "idle"
          /\ renew[p].todo # << >> => renew'[p].result = "stopped"]_vars
\* The stop channel is closed, and a call that has renewed a contract is at
\* the head of the iteration of its next entry.
C9_Witness ==
    \E p \in RenewCallers :
        /\ stopped
        /\ renew[p].pc = "loop" /\ renew[p].todo # << >>
        /\ \E i \in DOMAIN renew[p].contractSet : renew[p].contractSet[i] > 2

\* ------------------------------------------------- SpecRefresh: classification
\* RenewContracts classifies one contract of renter r1 with host h1: any
\* cost and funds, utility, end height, allowance and host entry.
RefreshCostsAndFunds == {<<100, 1>>, <<100, 3>>, <<2, 0>>, <<2, 2>>}
RefreshEndHeights == {5, 8}
RefreshAllowanceFunds == {8, 2000}
RefreshAllowanceHosts == {1, 2}
RefreshVersions == {MinimumSupportedRenterHostProtocolVersion - 1, MinimumSupportedRenterHostProtocolVersion}

InitRefresh ==
    /\ running = {"renew"}
    /\ \E cf \in RefreshCostsAndFunds, e \in RefreshEndHeights, gfu \in BOOLEAN, gfr \in BOOLEAN :
          contracts = [id \in {1} |-> Contract(1, "r1", "h1", 0, e, cf[1], cf[2], Utility(gfu, gfr, FALSE))]
    /\ \E f \in RefreshAllowanceFunds, n \in RefreshAllowanceHosts :
          renters = [r \in RenterKeys |-> Renter(r, f, n)]
    /\ \E filtered \in BOOLEAN, v \in RefreshVersions :
          hdb = [h \in HostKeys |-> [HostEntry(1, FALSE) EXCEPT !.Filtered = filtered, !.Version = v]]
    /\ stopped \in BOOLEAN
    /\ acquired = EmptyMap /\ oldContracts = EmptyMap
    /\ renewedFrom = EmptyMap /\ renewedTo = EmptyMap
    /\ numFailedRenews = EmptyMap /\ doubleSpentContracts = EmptyMap
    /\ pubKeysToContractID = [k \in {<<"r1", "h1">>} |-> 1]
    /\ synced = TRUE /\ maintenanceLock = "free" /\ alerts = {}
    /\ maxFee = 0 /\ walletUnlocked = TRUE /\ wdPending = {} /\ broadcast = {}
    /\ mTodo = [t \in MaintThreads |-> << >>]
    /\ mKeys = [t \in MaintThreads |-> EmptyMap]
    /\ mpc = [t \in MaintThreads |-> "idle"]
    /\ blockHeight = 3 /\ nextID = 2 /\ monitored = {1}
    /\ renew = [p \in RenewCallers |-> RenewIdle("none")]
    /\ form = [q \in FormCallers |-> FormIdle("none")]
    /\ interrupt = "idle"

NextRefresh ==
    \/ \E rpk \in RenterKeys : RenewContractsCall("ra", rpk, <<1>>)
    \/ RenewContractsClassify("ra")

SpecRefresh == InitRefresh /\ [][NextRefresh]_vars

\* The iteration of lines 1242-1365 decides on a contract of the renter that
\* is outside the renew window with funds below the threshold of 3%.
ClassifiesExhausted(p) ==
    /\ renew[p].pc = "classify" /\ renew'[p] # renew[p]
    /\ Head(renew[p].ids) \in DOMAIN contracts
    /\ LET rc == contracts[Head(renew[p].ids)]
       IN  /\ rc.RenterPublicKey = renew[p].rpk
           /\ renew[p].bh + renters[renew[p].rpk].Allowance.RenewWindow < rc.EndHeight
           /\ rc.RenterFunds * 100 < rc.TotalCost * 3
\* The contract is still renewable, not good for upload, and its host is
\* known, not filtered and of a supported version; the contractor runs.
RefreshEligible(p) ==
    LET rc == contracts[Head(renew[p].ids)]
    IN  /\ ~rc.Utility.GoodForUpload /\ rc.Utility.GoodForRenew
        /\ rc.HostPublicKey \in DOMAIN hdb
        /\ ~hdb[rc.HostPublicKey].Filtered
        /\ hdb[rc.HostPublicKey].Version >= MinimumSupportedRenterHostProtocolVersion
        /\ ~stopped
\* The contract is appended to the refresh set with the amount of the claim.
PutInRefreshSet(p) ==
    LET rc == contracts[Head(renew[p].ids)]
        allowance == renters[renew[p].rpk].Allowance
        double == 2 * rc.TotalCost
        minimum == MinimumFunding(allowance)
    IN  /\ renew'[p].pc \in {"classify", "loop"}
        /\ renew'[p].todo = Append(renew[p].todo,
              [id |-> rc.ID, amount |-> IF double >= minimum THEN double ELSE minimum,
               hostPubKey |-> rc.HostPublicKey, refresh |-> TRUE])

\* C10 (as stated): a contract of the renter outside the renew window whose
\* renterFunds are below the threshold of its totalCost is put in the refresh
\* set with amount max(2 x totalCost, funds x fileContractMinimumFunding / hosts).
C10_ExhaustedIsRefreshed ==
    [][\A p \in RenewCallers : ClassifiesExhausted(p) => PutInRefreshSet(p)]_vars

\* C10 (amended): such a contract is put in the refresh set with that amount
\* when it is not GoodForUpload, is GoodForRenew, its host is in the host
\* database, not filtered and of a supported version, and the contractor has
\* not been stopped.
C10_ExhaustedNotGFUIsRefreshed ==
    [][\A p \in RenewCallers : ClassifiesExhausted(p) /\ RefreshEligible(p) => PutInRefreshSet(p)]_vars
\* A contract with 1% of its total cost left has been put in the refresh set
\* with the minimum funding, which is more than twice its total cost.
C10_Witness ==
    \E p \in RenewCallers :
        /\ renew[p].pc = "loop" /\ Len(renew[p].todo) = 1
        /\ LET r == Head(renew[p].todo)
           IN  /\ r.refresh /\ r.id \in DOMAIN contracts
               /\ contracts[r.id].RenterFunds * 100 = contracts[r.id].TotalCost
               /\ r.amount = MinimumFunding(renters[renew[p].rpk].Allowance)
               /\ r.amount > 2 * contracts[r.id].TotalCost

\* The iteration of lines 1242-1365 decides on a contract of the renter that
\* is GoodForRenew with blockHeight + renewWindow >= endHeight.
ClassifiesExpiring(p) ==
    /\ renew[p].pc = "classify" /\ renew'[p] # renew[p]
    /\ Head(renew[p].ids) \in DOMAIN contracts
    /\ LET rc == contracts[Head(renew[p].ids)]
       IN  /\ rc.RenterPublicKey = renew[p].rpk
           /\ renew[p].bh + renters[renew[p].rpk].Allowance.RenewWindow >= rc.EndHeight
           /\ rc.Utility.GoodForRenew
\* The host of the contract is known, not filtered and of a supported
\* version, and the contractor has not been stopped.
RenewEligible(p) ==
    LET rc == contracts[Head(renew[p].ids)]
    IN  /\ rc.HostPublicKey \in DOMAIN hdb
        /\ ~hdb[rc.HostPublicKey].Filtered
        /\ hdb[rc.HostPublicKey].Version >= MinimumSupportedRenterHostProtocolVersion
        /\ ~stopped
\* The contract is put in the renew set, after the renew entries and before
\* the refresh entries there are, with the amount of the estimator.
PutInRenewSet(p) ==
    LET rc == contracts[Head(renew[p].ids)]
        est == managedEstimateRenewFundingRequirements(rc, renters[renew[p].rpk].Allowance)
        old == renew[p].todo
        new == renew'[p].todo
    IN  /\ est.err = "nil"
        /\ renew'[p].pc \in {"classify", "loop"}
        /\ Len(new) = Len(old) + 1
        /\ \E i \in DOMAIN new :
              /\ new[i] = [id |-> rc.ID, amount |-> est.amount,
                           hostPubKey |-> rc.HostPublicKey, refresh |-> FALSE]
              /\ \A j \in 1..(i - 1) : ~new[j].refresh /\ new[j] = old[j]
              /\ \A j \in (i + 1)..Len(new) : new[j].refresh /\ new[j] = old[j - 1]

\* C11 (as stated): every submitted contract of the renter with blockHeight +
\* renewWindow >= endHeight that is GoodForRenew is put in the renew set, not
\* the refresh set, with the amount managedEstimateRenewFundingRequirements
\* returns for it.
C11_ExpiringIsRenewed ==
    [][\A p \in RenewCallers : ClassifiesExpiring(p) => PutInRenewSet(p)]_vars

\* C11 (amended): such a contract is put in the renew set with that amount
\* when its host is in the host database, not filtered and of a supported
\* version, and the contractor has not been stopped.
C11_ExpiringKnownHostIsRenewed ==
    [][\A p \in RenewCallers : ClassifiesExpiring(p) /\ RenewEligible(p) => PutInRenewSet(p)]_vars
\* A contract whose end height is exactly blockHeight + renewWindow has been
\* put in the renew set.
C11_Witness ==
    \E p \in RenewCallers :
        /\ renew[p].pc = "loop" /\ Len(renew[p].todo) = 1
        /\ LET r == Head(renew[p].todo)
           IN  /\ ~r.refresh /\ r.id \in DOMAIN contracts
               /\ contracts[r.id].EndHeight = renew[p].bh + renters[renew[p].rpk].Allowance.RenewWindow
               /\ r.amount >= MinimumFunding(renters[renew[p].rpk].Allowance)

\* --------------------------------------------------- SpecForm: FormContracts
\* FormContracts called with an empty contract store: any allowance funds,
\* hosts and price ceilings, any prices of the hosts, any fee estimate.
FormAllowanceFunds == {8, 60}
FormAllowanceHosts == {1, 2}
FormCeilings == {0, 1, 2}
FormRPCPrices == {1}
FormContractPrices == {0, 1, 4}
FormSectorAccessPrices == {1}
FormMaxFees == {0, 1}

InitForm ==
    /\ running = {"form"}
    /\ contracts = EmptyMap
    /\ \E f \in FormAllowanceFunds, n \in FormAllowanceHosts,
          mr \in FormCeilings, mc \in FormCeilings, ms \in FormCeilings :
          renters = [r \in RenterKeys |->
                        [Renter(r, f, n) EXCEPT !.Allowance.MaxRPCPrice = mr,
                                                !.Allowance.MaxContractPrice = mc,
                                                !.Allowance.MaxSectorAccessPrice = ms]]
    /\ \E rp \in FormRPCPrices, cp \in FormContractPrices, sp \in FormSectorAccessPrices :
          hdb = [h \in HostKeys |->
                    [HostEntry(IF h = "h1" THEN 1 ELSE 2, FALSE) EXCEPT
                        !.BaseRPCPrice = rp, !.ContractPrice = cp, !.SectorAccessPrice = sp]]
    /\ maxFee \in FormMaxFees
    /\ stopped = FALSE
    /\ acquired = EmptyMap /\ oldContracts = EmptyMap
    /\ renewedFrom = EmptyMap /\ renewedTo = EmptyMap
    /\ numFailedRenews = EmptyMap /\ doubleSpentContracts = EmptyMap
    /\ pubKeysToContractID = EmptyMap
    /\ synced = TRUE /\ maintenanceLock = "free" /\ alerts = {}
    /\ walletUnlocked = TRUE /\ wdPending = {} /\ broadcast = {}
    /\ mTodo = [t \in MaintThreads |-> << >>]
    /\ mKeys = [t \in MaintThreads |-> EmptyMap]
    /\ mpc = [t \in MaintThreads |-> "idle"]
    /\ blockHeight = 3 /\ nextID = 1 /\ monitored = {}
    /\ renew = [p \in RenewCallers |-> RenewIdle("none")]
    /\ form = [q \in FormCallers |-> FormIdle("none")]
    /\ interrupt = "idle"

NextForm == FormNext("fa")

SpecForm == InitForm /\ [][NextForm]_vars

\* Every price ceiling of the allowance is set.
AllCeilingsSet(a) ==
    a.MaxRPCPrice # 0 /\ a.MaxContractPrice # 0 /\ a.MaxSectorAccessPrice # 0
\* Every price of the host is strictly below its ceiling.
PricesBelowCeilings(a, hs) ==
    /\ hs.BaseRPCPrice < a.MaxRPCPrice
    /\ hs.ContractPrice < a.MaxContractPrice
    /\ hs.SectorAccessPrice < a.MaxSectorAccessPrice
\* By how much a price is raised above its ceiling.
Raises == 1..2
\* The form-time filter rejects the host once its RPC base price, or its
\* contract price, is raised above the ceiling.
RaisedRPCOrContractPriceRejected(a, hs) ==
    \A d \in Raises :
        /\ checkFormContractGouging(a, [hs EXCEPT !.BaseRPCPrice = a.MaxRPCPrice + d])
        /\ checkFormContractGouging(a, [hs EXCEPT !.ContractPrice = a.MaxContractPrice + d])
RaisedSectorAccessPriceRejected(a, hs) ==
    \A d \in Raises :
        checkFormContractGouging(a, [hs EXCEPT !.SectorAccessPrice = a.MaxSectorAccessPrice + d])

\* C12 (as stated): with every ceiling set and every price of the host
\* strictly below its ceiling checkFormContractGouging accepts, and it rejects
\* once any single price of the host is raised above its ceiling.
C12_AnyRaisedPriceRejected ==
    \A r \in DOMAIN renters, h \in DOMAIN hdb :
        AllCeilingsSet(renters[r].Allowance) /\ PricesBelowCeilings(renters[r].Allowance, hdb[h]) =>
            /\ ~checkFormContractGouging(renters[r].Allowance, hdb[h])
            /\ RaisedRPCOrContractPriceRejected(renters[r].Allowance, hdb[h])
            /\ RaisedSectorAccessPriceRejected(renters[r].Allowance, hdb[h])

\* C12 (amended): with every ceiling set and every price of the host strictly
\* below its ceiling checkFormContractGouging accepts, and it rejects once the
\* RPC base price or the contract price of the host is raised above its
\* ceiling.
C12_RaisedRPCOrContractPriceRejected ==
    \A r \in DOMAIN renters, h \in DOMAIN hdb :
        AllCeilingsSet(renters[r].Allowance) /\ PricesBelowCeilings(renters[r].Allowance, hdb[h]) =>
            /\ ~checkFormContractGouging(renters[r].Allowance, hdb[h])
            /\ RaisedRPCOrContractPriceRejected(renters[r].Allowance, hdb[h])
\* managedNewContract has formed a contract with a host whose prices are all
\* strictly below the ceilings, all set, of the renter.
C12_Witness ==
    \E id \in DOMAIN contracts :
        /\ AllCeilingsSet(renters[contracts[id].RenterPublicKey].Allowance)
        /\ PricesBelowCeilings(renters[contracts[id].RenterPublicKey].Allowance,
                               hdb[contracts[id].HostPublicKey])

\* Whether the filters reject on the RPC base price, the contract price and
\* the sector access price, with < or with <=.
RejectsBelow(ceiling, price) == ceiling # 0 /\ ceiling < price
RejectsAtOrBelow(ceiling, price) == ceiling # 0 /\ ceiling <= price
\* The two filters hold different verdicts only at an equality of the RPC
\* base price or the contract price, or on the sector access price.
DifferOnlyAtEquality(a, hs) ==
    checkFormContractGouging(a, hs) # staticCheckFormPaymentContractGouging(a, hs) =>
        /\ ~checkFormContractGouging(a, hs)
        /\ \/ a.MaxRPCPrice # 0 /\ a.MaxRPCPrice = hs.BaseRPCPrice
           \/ a.MaxContractPrice # 0 /\ a.MaxContractPrice = hs.ContractPrice
           \/ RejectsAtOrBelow(a.MaxSectorAccessPrice, hs.SectorAccessPrice)
\* At an equality the payment filter rejects, and the form-time filter
\* decides on the other price alone.
DifferAtEquality(a, hs) ==
    /\ a.MaxRPCPrice # 0 /\ a.MaxRPCPrice = hs.BaseRPCPrice =>
          /\ staticCheckFormPaymentContractGouging(a, hs)
          /\ checkFormContractGouging(a, hs) = RejectsBelow(a.MaxContractPrice, hs.ContractPrice)
    /\ a.MaxContractPrice # 0 /\ a.MaxContractPrice = hs.ContractPrice =>
          /\ staticCheckFormPaymentContractGouging(a, hs)
          /\ checkFormContractGouging(a, hs) = RejectsBelow(a.MaxRPCPrice, hs.BaseRPCPrice)
\* The payment filter rejects on the sector access price.
SectorAccessRejected(a, hs) ==
    RejectsAtOrBelow(a.MaxSectorAccessPrice, hs.SectorAccessPrice) =>
        staticCheckFormPaymentContractGouging(a, hs)
\* With a ceiling of zero neither filter looks at the price.
ZeroCeilingDisables(a, hs) ==
    \A x \in 0..4 :
        /\ a.MaxRPCPrice = 0 =>
              /\ checkFormContractGouging(a, [hs EXCEPT !.BaseRPCPrice = x])
                    = checkFormContractGouging(a, hs)
              /\ staticCheckFormPaymentContractGouging(a, [hs EXCEPT !.BaseRPCPrice = x])
                    = staticCheckFormPaymentContractGouging(a, hs)
        /\ a.MaxContractPrice = 0 =>
              /\ checkFormContractGouging(a, [hs EXCEPT !.ContractPrice = x])
                    = checkFormContractGouging(a, hs)
              /\ staticCheckFormPaymentContractGouging(a, [hs EXCEPT !.ContractPrice = x])
                    = staticCheckFormPaymentContractGouging(a, hs)
        /\ a.MaxSectorAccessPrice = 0 =>
              staticCheckFormPaymentContractGouging(a, [hs EXCEPT !.SectorAccessPrice = x])
                    = staticCheckFormPaymentContractGouging(a, hs)
        /\ a.MaxRPCPrice = 0 /\ a.MaxContractPrice = 0 /\ a.MaxSectorAccessPrice = 0 =>
              /\ ~checkFormContractGouging(a, hs)
              /\ ~staticCheckFormPaymentContractGouging(a, hs)

\* C13: for every allowance and host, the two gouging filters differ exactly
\* at equality: with a non-zero ceiling equal to the RPC base price or the
\* contract price the payment filter rejects where the form-time filter
\* does not; the payment filter also rejects when the non-zero sector access
\* ceiling is at or below the host's price; a ceiling of zero disables its
\* check in both.
C13_FiltersDifferAtEquality ==
    \A r \in DOMAIN renters, h \in DOMAIN hdb :
        /\ DifferOnlyAtEquality(renters[r].Allowance, hdb[h])
        /\ DifferAtEquality(renters[r].Allowance, hdb[h])
        /\ SectorAccessRejected(renters[r].Allowance, hdb[h])
        /\ ZeroCeilingDisables(renters[r].Allowance, hdb[h])
\* managedNewContract has formed a contract with a host whose contract price
\* is the ceiling of the renter: the form-time filter accepted, the payment
\* filter rejects.
C13_Witness ==
    \E id \in DOMAIN contracts :
        LET a == renters[contracts[id].RenterPublicKey].Allowance
            hs == hdb[contracts[id].HostPublicKey]
        IN  /\ a.MaxContractPrice # 0 /\ a.MaxContractPrice = hs.ContractPrice
            /\ a.MaxSectorAccessPrice = 0
            /\ ~checkFormContractGouging(a, hs)
            /\ staticCheckFormPaymentContractGouging(a, hs)

\* allowance.funds x fileContractMinimumFunding / allowance.hosts, in the
\* arithmetic of types.Currency.
LeastFunding(a) == MulFloatMinimumFunding(a.Funds) \div a.Hosts

\* C14: for a renter with allowance.funds > 0 and allowance.hosts > 0, every
\* amount managedEstimateRenewFundingRequirements returns without error, for
\* a contract of the store or as the amount of a renew-set entry, is at least
\* allowance.funds x fileContractMinimumFunding / allowance.hosts.
C14_EstimateAtLeastMinimum ==
    /\ \A id \in DOMAIN contracts :
          LET a == renters[contracts[id].RenterPublicKey].Allowance
              est == managedEstimateRenewFundingRequirements(contracts[id], a)
          IN  a.Funds > 0 /\ a.Hosts > 0 /\ est.err = "nil" => est.amount >= LeastFunding(a)
    /\ \A p \in RenewCallers : \A i \in DOMAIN renew[p].todo :
          LET a == renters[renew[p].rpk].Allowance
          IN  a.Funds > 0 /\ a.Hosts > 0 /\ ~renew[p].todo[i].refresh =>
                 renew[p].todo[i].amount >= LeastFunding(a)
\* RenewContracts has put a contract in the renew set with the least funding,
\* which is above the estimate of its cost.
C14_Witness ==
    \E p \in RenewCallers :
        /\ renew[p].pc = "loop" /\ Len(renew[p].todo) = 1
        /\ ~Head(renew[p].todo).refresh
        /\ Head(renew[p].todo).amount = LeastFunding(renters[renew[p].rpk].Allowance)
        /\ Head(renew[p].todo).amount > 100

\* ------------------------------------------------------------------ SpecPrune
\* managedPruneRedundantAddressRange and the rest of the pass, run by one
\* thread on a store of contracts of any utility, with hosts the hostdb
\* reports or does not report.
PruneUtilities == {Utility(gfu, gfr, locked) : gfu \in BOOLEAN, gfr \in BOOLEAN, locked \in BOOLEAN}
PruneContract(id) ==
    {Contract(id, r, h, 1, 6, id, id, u) : r \in RenterKeys, h \in HostKeys, u \in PruneUtilities}
PruneStores ==
    UNION {{f \in [1..k -> UNION {PruneContract(id) : id \in 1..k}] : \A id \in 1..k : f[id].ID = id} : k \in 1..2}
InitPrune ==
    /\ running = {"maintenance"}
    /\ \E st \in PruneStores : contracts = st
    /\ \E v1 \in BOOLEAN, v2 \in BOOLEAN :
          hdb = [h \in HostKeys |-> IF h = "h1" THEN HostEntry(1, v1) ELSE HostEntry(2, v2)]
    /\ acquired = EmptyMap
    /\ oldContracts = EmptyMap
    /\ renewedFrom = EmptyMap
    /\ renewedTo = EmptyMap
    /\ pubKeysToContractID = EmptyMap
    /\ numFailedRenews = EmptyMap
    /\ doubleSpentContracts = EmptyMap
    /\ synced = TRUE
    /\ stopped = FALSE
    /\ maintenanceLock = "m1"
    /\ alerts = {}
    /\ renters = InitRenters
    /\ maxFee = 0
    /\ mTodo = [t \in MaintThreads |-> << >>]
    /\ mKeys = [t \in MaintThreads |-> EmptyMap]
    /\ walletUnlocked = TRUE
    /\ wdPending = {}
    /\ broadcast = {}
    /\ blockHeight = 2
    /\ nextID = MaxContracts + 1
    /\ mpc = [t \in MaintThreads |-> IF t = "m1" THEN "prune" ELSE "idle"]
    /\ monitored = DOMAIN contracts
    /\ renew = [p \in RenewCallers |-> RenewIdle("none")]
    /\ form = [q \in FormCallers |-> FormIdle("none")]
    /\ interrupt = "idle"

NextPrune ==
    \/ ManagedPruneRedundantAddressRange("m1")
    \/ MaintenanceUpdateContracts("m1")
    \/ ManagedLimitGFUHosts("m1")

SpecPrune == InitPrune /\ [][NextPrune]_vars

\* The hosts the host directory reports to the pass.
ReportedHosts ==
    {h \in HostKeys :
        /\ hdb[h].IPViolation
        /\ \E id \in DOMAIN contracts :
              contracts[id].HostPublicKey = h /\ ~IsCanceled(contracts[id].Utility)}
PruneRuns(t) == mpc[t] = "prune" /\ mpc'[t] = "hdbUpdate"

\* C15: when the host directory reports a host as violating IP policy,
\* managedPruneRedundantAddressRange cancels every contract with that host
\* that is not already cancelled (it ends Locked, not GoodForRenew, not
\* GoodForUpload), leaves the already-cancelled contracts with that host
\* untouched, and changes no contract with a host that was not reported.
C15_PruneCancelsReported ==
    [][\A t \in MaintThreads : PruneRuns(t) =>
          /\ DOMAIN contracts' = DOMAIN contracts
          /\ \A id \in DOMAIN contracts :
                LET c == contracts[id]
                IN  IF c.HostPublicKey \in ReportedHosts /\ ~IsCanceled(c.Utility)
                    THEN /\ contracts'[id].Utility = Utility(FALSE, FALSE, TRUE)
                         /\ [contracts'[id] EXCEPT !.Utility = c.Utility] = c
                    ELSE contracts'[id] = c]_vars
\* The pruning step has run: a contract with a reported host is cancelled,
\* and a good contract with a host that was not reported is as it was loaded.
C15_Witness ==
    /\ mpc["m1"] = "hdbUpdate"
    /\ DOMAIN contracts = {1, 2}
    /\ contracts[1].HostPublicKey = "h1" /\ hdb["h1"].IPViolation
    /\ contracts[1].TotalCost = 1 /\ IsCanceled(contracts[1].Utility)
    /\ contracts[2].HostPublicKey = "h2" /\ ~hdb["h2"].IPViolation
    /\ contracts[2].Utility = GoodUtility

\* The contracts a call of FormContracts that found the renter without
\* contracts has formed so far, and their funding.
FormedBy(q) == ByRenter(form[q].rpk)
FundingOf == [id \in DOMAIN contracts |-> contracts[id].TotalCost]
FromNoContracts(q) == form[q].pc # "idle" /\ form[q].allContracts = {}

\* C16: in a call of FormContracts that found the renter without contracts
\* and with allowance.hosts = H, the contracts formed are never more than H;
\* at the head of every iteration the contracts formed and the contracts
\* still needed add up to H (so the call that ends with nothing needed has
\* formed exactly H), every contract formed is stored GoodForUpload and
\* GoodForRenew, and the remaining funds, those of the call and those of the
\* allowance, are the allowance funds less the sum of the formed contracts'
\* funding.
C16_FormsExactlyNeeded ==
    \A q \in FormCallers : FromNoContracts(q) =>
        LET loc == form[q]
            a == renters[loc.rpk].Allowance
        IN  /\ Cardinality(FormedBy(q)) <= a.Hosts
            /\ loc.pc = "loop" =>
                  /\ loc.needed >= 0
                  /\ Cardinality(FormedBy(q)) + loc.needed = a.Hosts
                  /\ \A id \in FormedBy(q) :
                        contracts[id].Utility.GoodForUpload /\ contracts[id].Utility.GoodForRenew
                  /\ loc.fundsRemaining = a.Funds - SumOf(FundingOf, FormedBy(q))
                  /\ FundsRemaining(loc.rpk) = a.Funds - SumOf(FundingOf, FormedBy(q))
\* A call that found the renter without contracts has formed the two
\* contracts the allowance asks for and needs no more.
C16_Witness ==
    \E q \in FormCallers :
        /\ FromNoContracts(q) /\ form[q].pc = "loop"
        /\ renters[form[q].rpk].Allowance.Hosts = 2
        /\ form[q].needed = 0
        /\ Cardinality(FormedBy(q)) = 2
        /\ form[q].hosts = << >>
        /\ form[q].fundsRemaining < renters[form[q].rpk].Allowance.Funds

\* The interval of the initial funding and the funding before the clamp,
\* as the claim states them.
MinInitialFunding(a) == (a.Funds \div a.Hosts) \div MinInitialContractFundingDivFactor
MaxInitialFunding(a) ==
    ((a.Funds \div a.Hosts) * MaxInitialContractFundingMulFactor) \div MaxInitialContractFundingDivFactor
FeeFunding(h) ==
    (hdb[h].ContractPrice + maxFee * EstimatedFileContractTransactionSetSize) * ContractFeeFundingMulFactor
ClampInto(x, lo, hi) == IF x < lo THEN lo ELSE IF x > hi THEN hi ELSE x
AtNegotiator(q) == form[q].pc = "managedNewContract"

\* C17: for every candidate host in FormContracts, the funding passed to
\* managedNewContract is (host.ContractPrice + txnFee) x
\* ContractFeeFundingMulFactor clamped into the interval from
\* funds/hosts/MinInitialContractFundingDivFactor to funds/hosts x
\* MaxInitialContractFundingMulFactor / MaxInitialContractFundingDivFactor,
\* so it is neither below the minimum nor above the maximum initial funding.
C17_FundingClamped ==
    \A q \in FormCallers : AtNegotiator(q) =>
        LET a == renters[form[q].rpk].Allowance
        IN  /\ form[q].funds =
                  ClampInto(FeeFunding(form[q].host), MinInitialFunding(a), MaxInitialFunding(a))
            /\ form[q].funds >= MinInitialFunding(a)
            /\ form[q].funds <= MaxInitialFunding(a)
\* managedNewContract is called with the maximum initial funding for a host
\* whose price asks for more.
C17_Witness ==
    \E q \in FormCallers :
        LET a == renters[form[q].rpk].Allowance
        IN  /\ AtNegotiator(q)
            /\ FeeFunding(form[q].host) > MaxInitialFunding(a)
            /\ form[q].funds = MaxInitialFunding(a)
            /\ MinInitialFunding(a) > 0

\* ------------------------------------------------------------------ SpecMaint
\* Two ticks of threadedContractMaintenance, each in a thread of its own,
\* beside FormContracts or RenewContracts.
InitMaint ==
    /\ InitIdle
    /\ contracts = LoadedMain
    /\ running \in {{"maintenance", "form"}, {"maintenance", "renew"}}
    /\ pubKeysToContractID = [k \in {PairOf(LoadedMain[i]) : i \in 1..2} |->
                                 CHOOSE i \in 1..2 : PairOf(LoadedMain[i]) = k]
    /\ blockHeight = 3
    /\ nextID = 3
    /\ mpc = [t \in MaintThreads |-> "idle"]
    /\ monitored = DOMAIN contracts
    /\ renew = [p \in RenewCallers |-> RenewIdle("none")]
    /\ form = [q \in FormCallers |-> FormIdle("none")]
    /\ interrupt = "idle"

\* RenewContracts called with one id.
RenewOneNext(p) ==
    \/ \E rpk \in RenterKeys, id \in 1..2 : RenewContractsCall(p, rpk, <<id>>)
    \/ RenewContractsClassify(p)
    \/ RenewContractsEntry(p)
    \/ RenewContractsReturn(p)
    \/ \E outcome \in {"ok", "sessionErr", "hostFault", "walletErr"} : ManagedRenew(p, outcome)
    \/ ManagedRenewContractPost(p)
    \/ ManagedRenewContractLink(p)
    \/ RenewContractsAfter(p)

NextMaint ==
    \/ \E t \in MaintThreads : MaintenanceNext(t)
    \/ \E t \in MaintThreads : MaintenanceSkip(t)
    \/ RenewOneNext("ra")
    \/ FormNext("fa")

SpecMaint == InitMaint /\ [][NextMaint]_vars

InPass(t) == mpc[t] # "idle"
OnePass ==
    /\ \A t1, t2 \in MaintThreads : InPass(t1) /\ InPass(t2) => t1 = t2
    /\ \A t \in MaintThreads : InPass(t) => maintenanceLock = t
CleanupStep == mpc' # mpc
EntryPointStep == renew' # renew \/ form' # form

\* C18: at most one pass of threadedContractMaintenance is at its cleanup
\* steps at any time, and the pass that is holds maintenanceLock; while a
\* thread holds the lock no cleanup step is a step of another thread; and no
\* step of FormContracts or RenewContracts changes maintenanceLock, also
\* while a pass is under way.
C18_OnePassAtATime ==
    /\ []OnePass
    /\ [][/\ \A t \in MaintThreads : maintenanceLock \notin {"free", t} => mpc'[t] = mpc[t]
          /\ EntryPointStep => maintenanceLock' = maintenanceLock]_vars
\* A pass is at its pruning step, the other thread is idle, and FormContracts
\* is in its loop with a contract formed during the pass.
C18_Witness ==
    /\ mpc["m2"] = "prune" /\ mpc["m1"] = "idle" /\ maintenanceLock = "m2"
    /\ form["fa"].pc = "loop"
    /\ Len(form["fa"].contractSet) = 2

\* ------------------------------------------------------------------ SpecOrder
\* RenewContracts called by renter r1 with any list of ids of its contracts,
\* each of them expiring, out of funds or good as it is.
OrderIds == 1..MaxLoaded
OrderIdLists == UNION {[1..n -> OrderIds] : n \in 1..MaxLoaded}
OrderKinds == {"expiring", "exhausted", "good"}
OrderContract(id, kind) ==
    Contract(id, "r1", IF id = 2 THEN "h2" ELSE "h1", 0,
             IF kind = "expiring" THEN 5 ELSE 8, 2,
             IF kind = "exhausted" THEN 0 ELSE 2,
             IF kind = "exhausted" THEN Utility(FALSE, TRUE, FALSE) ELSE GoodUtility)
InitOrder ==
    /\ running = {"renew"}
    /\ \E k \in [OrderIds -> OrderKinds] : contracts = [id \in OrderIds |-> OrderContract(id, k[id])]
    /\ \E f \in RefreshAllowanceFunds : renters = [r \in RenterKeys |-> Renter(r, f, 2)]
    /\ hdb = InitHdb
    /\ stopped = FALSE
    /\ acquired = EmptyMap /\ oldContracts = EmptyMap
    /\ renewedFrom = EmptyMap /\ renewedTo = EmptyMap
    /\ numFailedRenews = EmptyMap /\ doubleSpentContracts = EmptyMap
    /\ pubKeysToContractID = [k \in {<<"r1", "h1">>, <<"r1", "h2">>} |-> IF k[2] = "h1" THEN 1 ELSE 2]
    /\ synced = TRUE /\ maintenanceLock = "free" /\ alerts = {}
    /\ maxFee = 0 /\ walletUnlocked = TRUE /\ wdPending = {} /\ broadcast = {}
    /\ mTodo = [t \in MaintThreads |-> << >>]
    /\ mKeys = [t \in MaintThreads |-> EmptyMap]
    /\ mpc = [t \in MaintThreads |-> "idle"]
    /\ blockHeight = 3 /\ nextID = MaxLoaded + 1 /\ monitored = OrderIds
    /\ renew = [p \in RenewCallers |-> RenewIdle("none")]
    /\ form = [q \in FormCallers |-> FormIdle("none")]
    /\ interrupt = "idle"

NextOrder ==
    \/ \E ids \in OrderIdLists : RenewContractsCall("ra", "r1", ids)
    \/ RenewContractsClassify("ra")
    \/ RenewContractsEntry("ra")
    \/ RenewContractsReturn("ra")
    \/ \E outcome \in {"ok", "sessionErr"} : ManagedRenew("ra", outcome)
    \/ ManagedRenewContractPost("ra")
    \/ ManagedRenewContractLink("ra")
    \/ RenewContractsAfter("ra")

SpecOrder == InitOrder /\ [][NextOrder]_vars

\* The renewals still to attempt: those of the renew set before those of the
\* refresh set.
RenewSetFirst(todo) == \A i, j \in DOMAIN todo : i < j /\ todo[i].refresh => todo[j].refresh
\* The sequence without its k-th element.
Without(seq, k) == [i \in 1..(Len(seq) - 1) |-> IF i < k THEN seq[i] ELSE seq[i + 1]]
\* The iteration over the input puts the next id of the input in a set: it
\* goes behind the entries its set holds already, which keep their order.
PutInSetInInputOrder(p) ==
    LET todo == renew[p].todo
        after == renew'[p].todo
    IN  /\ renew'[p].ids = Tail(renew[p].ids)
        /\ \E k \in DOMAIN after :
              /\ after[k].id = Head(renew[p].ids)
              /\ Without(after, k) = todo
              /\ \A i \in DOMAIN after : i > k => after[i].refresh /\ ~after[k].refresh
              /\ \A i \in DOMAIN after : i < k /\ ~after[k].refresh => ~after[i].refresh
Classifies(p) == renew[p].pc = "classify" /\ renew'[p].pc \in {"classify", "loop"}
Invokes(p) == renew[p].pc = "loop" /\ renew'[p].pc = "managedRenew"
InCall(p) == renew[p].pc \notin {"idle", "classify"} /\ renew'[p].pc # "idle"

\* C19: within one call of RenewContracts the renewals are attempted in the
\* order of a list that holds the renew set before the refresh set and each
\* set in the order of the ids in the input: the iteration over the input
\* puts the id at the head of what is left of the input behind the entries
\* of its set; managedRenewContract is called for the first entry left, and
\* for an entry of the refresh set only when no entry of the renew set is
\* left; and the entries left keep their order until the call returns.
C19_RenewSetFirstInInputOrder ==
    [][\A p \in RenewCallers :
          /\ Classifies(p) =>
                /\ RenewSetFirst(renew'[p].todo)
                /\ renew'[p].todo # renew[p].todo => PutInSetInInputOrder(p)
          /\ Invokes(p) =>
                /\ renew'[p].cur = Head(renew[p].todo)
                /\ renew'[p].todo = Tail(renew[p].todo)
                /\ renew'[p].cur.refresh => \A i \in DOMAIN renew[p].todo : renew[p].todo[i].refresh
          /\ InCall(p) =>
                \/ renew'[p].todo = renew[p].todo
                \/ renew[p].pc = "loop" /\ renew[p].todo # << >> /\ renew'[p].todo = Tail(renew[p].todo)]_vars
\* managedRenewContract is called for an entry of the renew set whose id came
\* last in the input, behind two ids that went to the refresh set and are
\* still to attempt.
C19_Witness ==
    \E p \in RenewCallers :
        /\ renew[p].pc = "managedRenew"
        /\ ~renew[p].cur.refresh /\ renew[p].cur.id = 3
        /\ Len(renew[p].todo) = 2
        /\ renew[p].todo[1].refresh /\ renew[p].todo[1].id = 2
        /\ renew[p].todo[2].refresh /\ renew[p].todo[2].id = 1

\* --------------------------------------------------------------- SpecRenewers
\* Two concurrent calls of RenewContracts, each with one id.
InitRenewers ==
    /\ InitIdle
    /\ contracts = LoadedMain
    /\ running = {"renew"}
    /\ pubKeysToContractID = [k \in {PairOf(LoadedMain[i]) : i \in 1..2} |->
                                 CHOOSE i \in 1..2 : PairOf(LoadedMain[i]) = k]
    /\ blockHeight = 3
    /\ nextID = 3
    /\ mpc = [t \in MaintThreads |-> "idle"]
    /\ monitored = DOMAIN contracts
    /\ renew = [p \in RenewCallers |-> RenewIdle("none")]
    /\ form = [q \in FormCallers |-> FormIdle("none")]
    /\ interrupt = "idle"

NextRenewers == \E p \in RenewCallers : RenewOneNext(p)

SpecRenewers == InitRenewers /\ [][NextRenewers]_vars

\* The calls whose staticContracts.Renew has succeeded for the id and that
\* have not yet gone on to the next renewal.
RenewSucceededFor(id) ==
    {p \in RenewCallers : renew[p].cur.id = id /\ renew[p].newID # 0 /\ renew[p].errRenew = "nil"}
\* The contracts recorded as renewed from the id.
SuccessorsOf(id) == {n \in DOMAIN renewedFrom : renewedFrom[n] = id}

\* C20: under concurrent calls of RenewContracts that name the same contract
\* id the contract is renewed at most once: staticContracts.Renew succeeds
\* for the id in at most one call, and the id has at most one successor.
C20_RenewedAtMostOnce ==
    \A id \in IDs :
        /\ Cardinality(RenewSucceededFor(id)) <= 1
        /\ Cardinality(SuccessorsOf(id)) <= 1

\* -------------------------------------------------------------- SpecRenewLive
\* Two concurrent calls of RenewContracts in the second half of the renew
\* window of contract 1, whose host may have failed renewals before.  Every
\* call that can take a step takes one in the end: the external calls return.
InitRenewLive ==
    /\ contracts = LoadedMain
    /\ running = {"renew"}
    /\ pubKeysToContractID = [k \in {PairOf(LoadedMain[i]) : i \in 1..2} |->
                                 CHOOSE i \in 1..2 : PairOf(LoadedMain[i]) = k]
    /\ \E n \in 0..(consecutiveRenewalsBeforeReplacement - 1) :
          numFailedRenews = IF n = 0 THEN EmptyMap ELSE [id \in {1} |-> n]
    /\ blockHeight = 4
    /\ nextID = 3
    /\ acquired = EmptyMap /\ oldContracts = EmptyMap
    /\ renewedFrom = EmptyMap /\ renewedTo = EmptyMap
    /\ doubleSpentContracts = EmptyMap
    /\ synced = TRUE /\ stopped = FALSE /\ maintenanceLock = "free" /\ alerts = {}
    /\ renters = InitRenters /\ hdb = InitHdb
    /\ maxFee = 0 /\ walletUnlocked = TRUE /\ wdPending = {} /\ broadcast = {}
    /\ mTodo = [t \in MaintThreads |-> << >>]
    /\ mKeys = [t \in MaintThreads |-> EmptyMap]
    /\ mpc = [t \in MaintThreads |-> "idle"]
    /\ monitored = DOMAIN contracts
    /\ renew = [p \in RenewCallers |-> RenewIdle("none")]
    /\ form = [q \in FormCallers |-> FormIdle("none")]
    /\ interrupt = "idle"

\* The steps of a call of RenewContracts under way.
RenewSteps(p) ==
    \/ RenewContractsClassify(p)
    \/ RenewContractsEntry(p)
    \/ RenewContractsReturn(p)
    \/ \E outcome \in {"ok", "sessionErr", "hostFault", "walletErr"} : ManagedRenew(p, outcome)
    \/ ManagedRenewContractPost(p)
    \/ ManagedRenewContractLink(p)
    \/ RenewContractsAfter(p)

SpecRenewLive ==
    InitRenewLive /\ [][NextRenewers]_vars /\ \A p \in RenewCallers : WF_vars(RenewSteps(p))

\* C21: every call of RenewContracts returns in the end when every external
\* call returns; in particular a call whose managedRenew has found the
\* contract not GoodForRenew goes on to the next entry of its sets.
C21_CallReturns ==
    \A p \in RenewCallers :
        /\ (renew[p].pc # "idle") ~> (renew[p].pc = "idle")
        /\ (renew[p].pc = "post" /\ renew[p].errRenew = "errContractNotGFR") ~> (renew[p].pc = "loop")

\* The step of managedLimitGFUHosts, and the contracts of a renter that are
\* good for upload before and after it.
LimitRuns(t) == mpc[t] = "limit" /\ mpc'[t] = "idle"
GfuOf(store, r) ==
    {id \in DOMAIN store : store[id].RenterPublicKey = r /\ store[id].Utility.GoodForUpload}
ScoreOf(id) == hdb[contracts[id].HostPublicKey].Score

C23_LowestScoringDemoted ==
    [][\A t \in MaintThreads : LimitRuns(t) =>
          \A r \in DOMAIN renters :
              \A d \in GfuOf(contracts, r) \ GfuOf(contracts', r) :
                  \A k \in GfuOf(contracts', r) : ScoreOf(d) <= ScoreOf(k)]_vars

\* managedRenewContract returns to RenewContracts without error.
ReportsRenewal(p) ==
    /\ renew[p].pc \in {"post", "link"}
    /\ renew'[p].pc = "after"
    /\ renew'[p].err = "nil"
\* The lineage of the renewal of o into n is on record, o is archived and
\* out of the store, and its last revision is sent.
Linked(o, n) ==
    /\ n \in DOMAIN renewedFrom' /\ renewedFrom'[n] = o
    /\ o \in DOMAIN renewedTo' /\ renewedTo'[o] = n
    /\ o \in DOMAIN oldContracts' /\ oldContracts'[o].ID = o
    /\ o \notin DOMAIN contracts'
    /\ o \in broadcast'

\* C24: when managedRenewContract reports a successful renewal of old id o
\* into new id n, then renewedFrom[n] = o, renewedTo[o] = n, oldContracts
\* holds o's metadata, o is no longer in the contract store and the watchdog
\* is told to send o's last revision.
C24_ReportedRenewalLinked ==
    [][\A p \in RenewCallers : ReportsRenewal(p) => Linked(renew[p].cur.id, renew[p].newID)]_vars

\* ---------------------------------------------------------------- SpecFormers
\* Two concurrent calls of FormContracts from an empty store, with hosts
\* whose prices pass the gouging check.
InitFormers ==
    /\ InitForm
    /\ maxFee = 0
    /\ \A r \in RenterKeys :
          /\ renters[r].Allowance.MaxRPCPrice = 0
          /\ renters[r].Allowance.MaxContractPrice = 0
          /\ renters[r].Allowance.MaxSectorAccessPrice = 0
    /\ \A h \in HostKeys : hdb[h].ContractPrice = 1

NextFormers == \E q \in FormCallers : FormNext(q)

SpecFormers == InitFormers /\ [][NextFormers]_vars

\* managedNewContract has the store form a contract for a renter and a host
\* whose key pubKeysToContractID holds already (lines 456-464).
FormsForKnownPair(q) ==
    /\ form[q].pc = "managedNewContract"
    /\ nextID' = nextID + 1
    /\ <<form[q].rpk, form[q].host>> \in DOMAIN pubKeysToContractID

\* C25: when managedNewContract has formed a contract but pubKeysToContractID
\* holds the key of the renter and the host already, the funding it returns
\* with its error is taken off the remaining funds of the FormContracts call.
C25_CommittedFundingAccounted ==
    [][\A q \in FormCallers : FormsForKnownPair(q) =>
          /\ form[q].funds > 0
          /\ form'[q].pc = "loop"
          /\ form'[q].fundsRemaining = form[q].fundsRemaining - form[q].funds]_vars

\* ----------------------------------------------------------------- SpecBudget
\* FormContracts and RenewContracts called for renter r1, whose one contract,
\* with host h1 and in its renew window, has cost less than, exactly or more
\* than the funds of the allowance.
BudgetCosts == {2, 8, 10}
InitBudget ==
    /\ running = {"form", "renew"}
    /\ \E cost \in BudgetCosts :
          contracts = [id \in {1} |-> Contract(1, "r1", "h1", 3, 5, cost, 2, GoodUtility)]
    /\ renters = [r \in RenterKeys |-> Renter(r, 8, 2)]
    /\ hdb = InitHdb
    /\ stopped = FALSE
    /\ acquired = EmptyMap /\ oldContracts = EmptyMap
    /\ renewedFrom = EmptyMap /\ renewedTo = EmptyMap
    /\ numFailedRenews = EmptyMap /\ doubleSpentContracts = EmptyMap
    /\ pubKeysToContractID = [k \in {<<"r1", "h1">>} |-> 1]
    /\ synced = TRUE /\ maintenanceLock = "free" /\ alerts = {}
    /\ maxFee = 0 /\ walletUnlocked = TRUE /\ wdPending = {} /\ broadcast = {}
    /\ mTodo = [t \in MaintThreads |-> << >>]
    /\ mKeys = [t \in MaintThreads |-> EmptyMap]
    /\ mpc = [t \in MaintThreads |-> "idle"]
    /\ blockHeight = 3 /\ nextID = 2 /\ monitored = {1}
    /\ renew = [p \in RenewCallers |-> RenewIdle("none")]
    /\ form = [q \in FormCallers |-> FormIdle("none")]
    /\ interrupt = "idle"

NextBudget == RenewOneNext("ra") \/ FormNext("fa")

SpecBudget == InitBudget /\ [][NextBudget]_vars

\* The funds a batch may spend, as the claim states them.
Budget(rpk) ==
    IF TotalAllocated(rpk) < renters[rpk].Allowance.Funds
    THEN renters[rpk].Allowance.Funds - TotalAllocated(rpk) ELSE 0

\* C26: the funds a FormContracts or RenewContracts batch may spend are
\* allowance.funds less TotalAllocated when TotalAllocated is below
\* allowance.funds and zero otherwise: the funds remaining of a call are
\* never more than that, and no call is at the Negotiator for a renter whose
\* TotalAllocated has reached allowance.funds.
C26_BatchWithinBudget ==
    /\ \A q \in FormCallers : form[q].pc \in {"loop", "managedNewContract"} =>
          /\ form[q].fundsRemaining <= Budget(form[q].rpk)
          /\ form[q].pc = "managedNewContract" =>
                TotalAllocated(form[q].rpk) < renters[form[q].rpk].Allowance.Funds
    /\ \A p \in RenewCallers : renew[p].pc \in {"loop", "managedRenew"} =>
          /\ renew[p].fundsRemaining <= Budget(renew[p].rpk)
          /\ renew[p].pc = "managedRenew" =>
                TotalAllocated(renew[p].rpk) < renters[renew[p].rpk].Allowance.Funds

\* The entry at the head of the renewals still to attempt asks for more than
\* the funds remaining of the call.
HeadExceedsFunds(p) ==
    /\ renew[p].pc = "loop"
    /\ renew[p].todo # << >>
    /\ Head(renew[p].todo).amount > renew[p].fundsRemaining

\* C27: RenewContracts is never at the Negotiator with an entry whose amount
\* exceeds the funds remaining; a step of the call at the head of such an
\* entry does not invoke the Negotiator, and when the call goes on it has
\* dropped the entry alone, flagged the low-funds alert and kept the funds
\* and the entries that follow.
C27_LowFundsEntrySkipped ==
    /\ [](\A p \in RenewCallers : renew[p].pc = "managedRenew" =>
             renew[p].cur.amount <= renew[p].fundsRemaining)
    /\ [][\A p \in RenewCallers : HeadExceedsFunds(p) /\ renew'[p] # renew[p] =>
             /\ renew'[p].pc # "managedRenew"
             /\ renew'[p].pc = "loop" =>
                   /\ renew'[p].low
                   /\ renew'[p].todo = Tail(renew[p].todo)
                   /\ renew'[p].fundsRemaining = renew[p].fundsRemaining
                   /\ renew'[p].contractSet = renew[p].contractSet]_vars
\* A call that skipped an entry for low funds is at the Negotiator with an
\* entry that followed it.
C27_Witness ==
    \E p \in RenewCallers :
        /\ renew[p].pc = "managedRenew"
        /\ renew[p].low
        /\ renew[p].cur.amount <= renew[p].fundsRemaining

\* ----------------------------------------------------------------- SpecWallet
\* Two calls of RenewContracts for contract 1 of renter r1 and a call of
\* FormContracts for renter r2 run concurrently; every step of a negotiation that uses the
\* wallet, the host or the watchdog may fail.
NegotiationFailures == {"addressErr", "seedErr", "startErr", "monitorErr"}

InitWallet ==
    /\ InitIdle
    /\ contracts = LoadedMain
    /\ running = {"renew", "form"}
    /\ pubKeysToContractID = [k \in {PairOf(LoadedMain[i]) : i \in 1..2} |->
                                 CHOOSE i \in 1..2 : PairOf(LoadedMain[i]) = k]
    /\ blockHeight = 3
    /\ nextID = 3
    /\ mpc = [t \in MaintThreads |-> "idle"]
    /\ monitored = DOMAIN contracts
    /\ renew = [p \in RenewCallers |-> RenewIdle("none")]
    /\ form = [q \in FormCallers |-> FormIdle("none")]
    /\ interrupt = "idle"

RenewWalletNext(p) ==
    \/ RenewContractsCall(p, "r1", <<1>>)
    \/ RenewContractsClassify(p)
    \/ RenewContractsEntry(p)
    \/ RenewContractsReturn(p)
    \/ \E outcome \in {"ok", "sessionErr", "hostFault", "walletErr"} \cup NegotiationFailures :
          ManagedRenew(p, outcome)
    \/ ManagedRenewContractPost(p)
    \/ ManagedRenewContractLink(p)
    \/ RenewContractsAfter(p)

FormWalletNext(q) ==
    \/ FormContractsCall(q, "r2")
    \/ FormContractsEntry(q)
    \/ \E outcome \in {"ok", "fail"} \cup NegotiationFailures : ManagedNewContract(q, outcome)
    \/ FormContractsAfter(q)

NextWallet ==
    \/ \E p \in RenewCallers : RenewWalletNext(p)
    \/ FormWalletNext("fa")

SpecWallet == InitWallet /\ [][NextWallet]_vars

\* managedRenew, or managedNewContract, has returned an error to the call.
RenewFailed(p) == renew[p].pc = "post" /\ renew[p].errRenew # "nil"
FormFailed(q) == form[q].pc = "loop" /\ form[q].wallet # NoWallet

\* C28: when managedNewContract or managedRenew returns an error after it
\* has started a transaction builder, the builder has been dropped.
C28_BuilderDroppedOnFailure ==
    /\ \A p \in RenewCallers : RenewFailed(p) /\ renew[p].wallet.txnBuilder # "none" =>
          renew[p].wallet.txnBuilder = "dropped"
    /\ \A q \in FormCallers : FormFailed(q) /\ form[q].wallet.txnBuilder # "none" =>
          form[q].wallet.txnBuilder = "dropped"

\* C29: when managedNewContract or managedRenew returns an error after
\* NextAddress has given the refund address, MarkAddressUnused has been
\* called for the address exactly once; when the function returns without
\* error it has not been called.
C29_AddressMarkedUnusedOnFailure ==
    /\ \A p \in RenewCallers : renew[p].pc = "post" /\ renew[p].wallet.uc =>
          renew[p].wallet.markedUnused = IF renew[p].errRenew # "nil" THEN 1 ELSE 0
    /\ \A p \in RenewCallers : renew[p].pc = "post" /\ renew[p].errRenew = "nil" =>
          renew[p].wallet.uc /\ renew[p].wallet.markedUnused = 0
    /\ \A q \in FormCallers : FormFailed(q) /\ form[q].wallet.uc =>
          form[q].wallet.markedUnused = 1
    /\ \A q \in FormCallers : form[q].pc = "after" =>
          form[q].wallet.uc /\ form[q].wallet.markedUnused = 0
\* managedRenew has failed after NextAddress and marked the address, while
\* managedNewContract has failed with a dropped builder and a marked
\* address, or has succeeded with the address in use.
C29_Witness ==
    /\ \E p \in RenewCallers :
          /\ RenewFailed(p) /\ renew[p].wallet.uc /\ renew[p].wallet.markedUnused = 1
    /\ \E q \in FormCallers :
          \/ FormFailed(q) /\ form[q].wallet.txnBuilder = "dropped" /\ form[q].wallet.markedUnused = 1
          \/ form[q].pc = "after" /\ form[q].wallet.uc /\ form[q].wallet.markedUnused = 0

\* -------------------------------------------- callInterruptContractMaintenance
\* Lines 277-296: the caller starts the thread that waits for the
\* maintenance lock and offers the signal on interruptMaintenance in its
\* select loop.  (No statement of threadedContractMaintenance, lines
\* 981-1020, receives from the channel.)
CallInterruptContractMaintenance ==
    /\ interrupt = "idle"
    /\ interrupt' = "sending"
    /\ UNCHANGED <<storeVars, contractorVars, envVars, extVars, renew, form,
                   mpc, mTodo, mKeys, maintenanceLock>>

\* A thread of the caller that closes gotLock without waiting for the lock.
InterruptGotLockNoWait ==
    /\ interrupt = "sending"
    /\ maintenanceLock' = "interrupt"
    /\ interrupt' = "gotLock"
    /\ UNCHANGED <<storeVars, contractorVars, envVars, extVars, renew, form, mpc, mTodo, mKeys>>

\* Lines 282-283: the thread of the caller gets the lock and closes gotLock.
InterruptGotLock ==
    /\ interrupt = "sending"
    /\ maintenanceLock = "free"
    /\ maintenanceLock' = "interrupt"
    /\ interrupt' = "gotLock"
    /\ UNCHANGED <<storeVars, contractorVars, envVars, extVars, renew, form, mpc, mTodo, mKeys>>

\* Lines 284 and 292-293: the thread unlocks and the caller returns.
InterruptReturn ==
    /\ interrupt = "gotLock"
    /\ maintenanceLock' = "free"
    /\ interrupt' = "idle"
    /\ UNCHANGED <<storeVars, contractorVars, envVars, extVars, renew, form, mpc, mTodo, mKeys>>

\* -------------------------------------------------------------- SpecInterrupt
\* Maintenance ticks on a store loaded from disk while
\* callInterruptContractMaintenance is called.
InitInterrupt ==
    /\ InitIdle
    /\ running = {"maintenance"}
    /\ \E st \in LoadedStores(MaxLoaded) : contracts = st
    /\ pubKeysToContractID = EmptyMap
    /\ blockHeight = 3
    /\ nextID = MaxContracts + 1
    /\ mpc = [t \in MaintThreads |-> "idle"]
    /\ monitored = DOMAIN contracts
    /\ renew = [p \in RenewCallers |-> RenewIdle("none")]
    /\ form = [q \in FormCallers |-> FormIdle("none")]
    /\ interrupt = "idle"

NextInterrupt ==
    \/ MaintenanceNext("m1")
    \/ MaintenanceSkip("m1")
    \/ CallInterruptContractMaintenance
    \/ InterruptGotLock
    \/ InterruptReturn

SpecInterrupt == InitInterrupt /\ [][NextInterrupt]_vars

\* C30: while callInterruptContractMaintenance offers its signal, the next
\* step of a maintenance pass under way is its return: the pass starts no
\* further cleanup step and the maintenance lock is free after it.
C30_InterruptedPassReturns ==
    [][\A t \in MaintThreads : interrupt = "sending" /\ InPass(t) /\ mpc'[t] # mpc[t] =>
          mpc'[t] = "idle" /\ maintenanceLock' = "free"]_vars

\* ---------------------------------------------------------- SpecInterruptLive
\* Maintenance ticks of two threads and calls of
\* callInterruptContractMaintenance on the store of the main specification,
\* after the end height of its first contract.  A pass under way takes its
\* next step, the caller returns once gotLock is closed (weak fairness), and
\* the thread blocked in maintenanceLock.Lock() gets the lock when it is
\* released again and again: a sync.Mutex hands the lock to a waiter that
\* has starved, and TryLock fails meanwhile (strong fairness).
InitInterruptLive ==
    /\ InitIdle
    /\ running = {"maintenance"}
    /\ contracts = LoadedMain
    /\ pubKeysToContractID \in {EmptyMap,
                                [k \in {PairOf(LoadedMain[i]) : i \in 1..2} |->
                                    CHOOSE i \in 1..2 : PairOf(LoadedMain[i]) = k]}
    /\ blockHeight \in {3, 6}
    /\ nextID = MaxContracts + 1
    /\ mpc = [t \in MaintThreads |-> "idle"]
    /\ monitored = DOMAIN contracts
    /\ renew = [p \in RenewCallers |-> RenewIdle("none")]
    /\ form = [q \in FormCallers |-> FormIdle("none")]
    /\ interrupt = "idle"

\* The steps of a pass under way.
PassSteps(t) ==
    \/ ManagedArchiveContracts(t)
    \/ ManagedCheckForDuplicatesViewAll(t)
    \/ ManagedCheckForDuplicatesIter(t)
    \/ ManagedCheckForDuplicatesDone(t)
    \/ ManagedUpdatePubKeysToContractIDMap(t)
    \/ ManagedPruneRedundantAddressRange(t)
    \/ MaintenanceUpdateContracts(t)
    \/ ManagedLimitGFUHosts(t)

NextInterruptLive ==
    \/ \E t \in MaintThreads : MaintenanceStart(t)
    \/ \E t \in MaintThreads : PassSteps(t)
    \/ \E t \in MaintThreads : MaintenanceSkip(t)
    \/ CallInterruptContractMaintenance
    \/ InterruptGotLock
    \/ InterruptReturn

SpecInterruptLive ==
    /\ InitInterruptLive
    /\ [][NextInterruptLive]_vars
    /\ \A t \in MaintThreads : WF_vars(PassSteps(t))
    /\ SF_vars(InterruptGotLock)
    /\ WF_vars(InterruptReturn)

\* C31: callInterruptContractMaintenance returns only after its thread has
\* got maintenanceLock, which no maintenance pass holds then (no pass is
\* under way while gotLock is closed and the lock not yet released); and a
\* call whose signal nobody receives returns in the end, the passes under
\* way releasing the lock.
C31_InterruptReturnsAfterLock ==
    /\ [](interrupt = "gotLock" =>
             maintenanceLock = "interrupt" /\ \A t \in MaintThreads : ~InPass(t))
    /\ [][interrupt # "idle" /\ interrupt' = "idle" => interrupt = "gotLock"]_vars
    /\ (interrupt = "sending") ~> (interrupt = "idle")
\* The thread of the caller holds the lock after a pass has archived the
\* expired contract and released the lock.
C31_Witness ==
    /\ interrupt = "gotLock"
    /\ maintenanceLock = "interrupt"
    /\ oldContracts # EmptyMap

\* managedRenewContract handles a failure of managedRenew for a contract of
\* the store (lines 847-885).
HandlesRenewFailure(p) ==
    /\ renew[p].pc = "post" /\ renew[p].errRenew # "nil"
    /\ renew'[p].pc = "after"
    /\ Viewable(renew[p].cur.id)
\* The three conditions of the replacement, on the counts after the failure.
MustReplace(p) ==
    LET id == renew[p].cur.id
    IN  /\ id \in DOMAIN numFailedRenews'
        /\ renew[p].bh + (renters[renew[p].rpk].Allowance.RenewWindow \div 2)
              >= contracts[id].EndHeight
        /\ numFailedRenews'[id] >= consecutiveRenewalsBeforeReplacement

\* C32: when managedRenewContract handles a failure of managedRenew, the
\* count of the contract goes up by one if the failure is the fault of the
\* host and no count changes otherwise; the old contract is made Locked, not
\* GoodForUpload and not GoodForRenew only if it has a count, the block
\* height of the call plus half the renew window has reached its end height
\* and the count has reached consecutiveRenewalsBeforeReplacement; otherwise
\* the store is left as it was; zero funds are reported spent.
C32_LockOnlyWhenReplaced ==
    [][\A p \in RenewCallers : HandlesRenewFailure(p) =>
          LET id == renew[p].cur.id
          IN  /\ numFailedRenews' =
                    IF IsHostsFault(renew[p].errRenew)
                    THEN MapPut(numFailedRenews, id, FailedRenews(id) + 1)
                    ELSE numFailedRenews
              /\ renew'[p].fundsSpent = 0
              /\ renew'[p].err = renew[p].errRenew
              /\ IF MustReplace(p)
                 THEN contracts' = callUpdateUtility(contracts, id, LockedUtility)
                 ELSE contracts' = contracts]_vars
\* A third failure through the fault of the host was handled before the
\* second half of the renew window: it is counted and the contract is not
\* locked.
C32_Witness ==
    \E p \in RenewCallers :
        /\ renew[p].pc = "after" /\ renew[p].err = "hostFault"
        /\ Viewable(renew[p].cur.id)
        /\ FailedRenews(renew[p].cur.id) >= consecutiveRenewalsBeforeReplacement
        /\ contracts[renew[p].cur.id].Utility.GoodForRenew

\* The call of p runs to its end and returns its contract set (line 1520).
RenewCallCompletes(p) ==
    renew[p].pc = "loop" /\ renew'[p].pc = "idle" /\ renew'[p].result = "ok"

\* C33: a RenewContracts call that runs to its end for one renter leaves
\* the failed-renew count of every contract of another renter as it was.
C33_OtherRentersCountsKept ==
    [][\A p \in RenewCallers : RenewCallCompletes(p) =>
          \A id \in DOMAIN numFailedRenews :
              (Viewable(id) /\ contracts[id].RenterPublicKey # renew[p].rpk) =>
                  /\ id \in DOMAIN numFailedRenews'
                  /\ numFailedRenews'[id] = numFailedRenews[id]]_vars

\* C34: when a RenewContracts call runs to its end, the failed-renew counts
\* after its return are those of the ids of its renew set and refresh set
\* that had a count, each with the count it had.
C34_CountsResetToSets ==
    [][\A p \in RenewCallers : RenewCallCompletes(p) =>
          /\ DOMAIN numFailedRenews' = (DOMAIN numFailedRenews) \cap renew[p].setIDs
          /\ \A id \in DOMAIN numFailedRenews' : numFailedRenews'[id] = numFailedRenews[id]]_vars
\* Every call has returned, the last one to its end, and a count is kept.
C34_Witness ==
    /\ \A p \in RenewCallers : renew[p].pc = "idle"
    /\ \E p \in RenewCallers : renew[p].result = "ok"
    /\ numFailedRenews # EmptyMap

\* C35: renewedFrom and renewedTo are inverse of each other: renewedFrom[n]
\* is o exactly when renewedTo[o] is n.
C35_LineageMapsInverse ==
    /\ \A n \in DOMAIN renewedFrom :
          renewedFrom[n] \in DOMAIN renewedTo /\ renewedTo[renewedFrom[n]] = n
    /\ \A o \in DOMAIN renewedTo :
          renewedTo[o] \in DOMAIN renewedFrom /\ renewedFrom[renewedTo[o]] = o

\* ----------------------------------------------------------------- SpecLocked
\* The wallet: it is locked and unlocked from outside the contractor.
WalletLocks ==
    /\ walletUnlocked
    /\ walletUnlocked' = FALSE
    /\ UNCHANGED <<storeVars, contractorVars, running, blockHeight, synced, stopped, renters,
                   hdb, maxFee, nextID, maintVars, extVars, renew, form>>
WalletUnlocks ==
    /\ ~walletUnlocked
    /\ walletUnlocked' = TRUE
    /\ UNCHANGED <<storeVars, contractorVars, running, blockHeight, synced, stopped, renters,
                   hdb, maxFee, nextID, maintVars, extVars, renew, form>>

\* The error FormContracts returns with on each of its paths (lines 1027,
\* 1036, 1053, 1063, 1128, 1155; nil at lines 1088 and 1202).
FormContractsError(result) == IF result = "ok" THEN "nil" ELSE result

\* The error RenewContracts returns with on each of its paths (lines 1209,
\* 1218, 1275, 1380, 1444; nil at line 1520).  At lines 1387 and 1451 it
\* returns the err of wallet.Unlocked(), which is nil when the call worked
\* and found the wallet locked.
RenewContractsError(result) == IF result \in {"ok", "walletLocked"} THEN "nil" ELSE result

\* FormContracts and RenewContracts called for renter r1 while the wallet is
\* locked and unlocked.
NextLocked ==
    \/ RenewOneNext("ra")
    \/ FormNext("fa")
    \/ WalletLocks
    \/ WalletUnlocks

SpecLocked == InitBudget /\ [][NextLocked]_vars

\* The call is at the head of an entry, the wallet is locked, and the call
\* takes its step.
FormFindsWalletLocked(q) ==
    /\ form[q].pc = "loop" /\ form[q].hosts # << >> /\ form[q].needed > 0
    /\ ~stopped /\ ~walletUnlocked
    /\ form'[q] # form[q]
RenewFindsWalletLocked(p) ==
    /\ renew[p].pc = "loop" /\ renew[p].todo # << >>
    /\ ~stopped /\ ~walletUnlocked
    /\ renew'[p] # renew[p]

\* C36: a FormContracts or RenewContracts call that finds the wallet locked
\* at the head of an entry returns at once, invoking the Negotiator no
\* more, and the error it returns is not nil.
C36_WalletLockedAborts ==
    [][/\ \A q \in FormCallers : FormFindsWalletLocked(q) =>
             form'[q].pc = "idle" /\ FormContractsError(form'[q].result) # "nil"
       /\ \A p \in RenewCallers : RenewFindsWalletLocked(p) =>
             renew'[p].pc = "idle" /\ RenewContractsError(renew'[p].result) # "nil"]_vars

\* ------------------------------------------------------------------ SpecBatch
\* Renter r1 holds contracts 1 and 2, both in their renew window; renter r2
\* holds none and may have an allowance of zero hosts; the contractor may
\* not be synced.
InitBatch ==
    /\ running = {"form", "renew", "stop"}
    /\ contracts = [id \in {1, 2} |->
                       Contract(id, "r1", IF id = 1 THEN "h1" ELSE "h2", 3, 5, 2, 2, GoodUtility)]
    /\ \E hosts \in {0, 2} :
          renters = [r \in RenterKeys |-> IF r = "r1" THEN Renter(r, 8, 2) ELSE Renter(r, 8, hosts)]
    /\ hdb = InitHdb
    /\ stopped = FALSE
    /\ acquired = EmptyMap /\ oldContracts = EmptyMap
    /\ renewedFrom = EmptyMap /\ renewedTo = EmptyMap
    /\ numFailedRenews = EmptyMap /\ doubleSpentContracts = EmptyMap
    /\ pubKeysToContractID = [k \in {<<"r1", "h1">>, <<"r1", "h2">>} |->
                                 IF k[2] = "h1" THEN 1 ELSE 2]
    /\ synced \in BOOLEAN /\ maintenanceLock = "free" /\ alerts = {}
    /\ maxFee = 0 /\ walletUnlocked = TRUE /\ wdPending = {} /\ broadcast = {}
    /\ mTodo = [t \in MaintThreads |-> << >>]
    /\ mKeys = [t \in MaintThreads |-> EmptyMap]
    /\ mpc = [t \in MaintThreads |-> "idle"]
    /\ blockHeight = 3 /\ nextID = 3 /\ monitored = {1, 2}
    /\ renew = [p \in RenewCallers |-> RenewIdle("none")]
    /\ form = [q \in FormCallers |-> FormIdle("none")]
    /\ interrupt = "idle"

\* RenewContracts called with the two ids by renter r1 or by an unknown
\* renter.
RenewBatchNext(p) ==
    \/ \E rpk \in {"r1", "rx"} : RenewContractsCall(p, rpk, <<1, 2>>)
    \/ RenewContractsClassify(p)
    \/ RenewContractsEntry(p)
    \/ RenewContractsReturn(p)
    \/ \E outcome \in {"ok", "hostFault"} : ManagedRenew(p, outcome)
    \/ ManagedRenewContractPost(p)
    \/ ManagedRenewContractLink(p)
    \/ RenewContractsAfter(p)

\* FormContracts called by renter r2 or by an unknown renter.
FormBatchNext(q) ==
    \/ \E rpk \in {"r2", "rx"} : FormContractsCall(q, rpk)
    \/ FormContractsEntry(q)
    \/ \E outcome \in {"ok", "fail"} : ManagedNewContract(q, outcome)
    \/ FormContractsAfter(q)

NextBatch ==
    \/ RenewBatchNext("ra")
    \/ FormBatchNext("fa")
    \/ WalletLocks
    \/ WalletUnlocks
    \/ CloseStopChan

SpecBatch == InitBatch /\ [][NextBatch]_vars

\* The attempt with one host has failed and the call takes its step.
FormAttemptFails(q) ==
    /\ form[q].pc = "managedNewContract"
    /\ form'[q] # form[q]
    /\ form'[q].pc # "after"
RenewAttemptFails(p) ==
    /\ renew[p].pc = "after" /\ renew[p].err # "nil"
    /\ renew'[p] # renew[p]

\* The batch goes on: the call is at the head of its loop with the same
\* entries to come and the same contract set.
FormGoesOn(q) ==
    /\ form'[q].pc = "loop"
    /\ form'[q].hosts = form[q].hosts
    /\ form'[q].contractSet = form[q].contractSet
RenewGoesOn(p) ==
    /\ renew'[p].pc = "loop"
    /\ renew'[p].todo = renew[p].todo
    /\ renew'[p].contractSet = renew[p].contractSet

\* The call returns in this step.
FormReturns(q) == form'[q] # form[q] /\ form'[q].pc = "idle"
RenewReturns(p) == renew'[p] # renew[p] /\ renew'[p].pc = "idle"

\* The results of a call that was aborted by an unknown renter or by the
\* closed stop channel (lines 1036, 1063, 1128; 1218, 1275, 1380, 1444).
UnknownRenterOrStop == {"ErrRenterNotFound", "stopped", "PeriodSpendingError"}

\* The results of a call that was aborted by the contractor not being
\* synced, by an allowance of zero hosts or by the locked wallet (lines
\* 1027, 1053, 1155; 1209, 1387, 1451).
OtherAborts == {"notSynced", "zeroHosts", "walletLocked"}

\* A failed attempt goes on with the batch, and a batch that goes through
\* its entries returns its contract set.
FailedAttemptGoesOn ==
    /\ \A q \in FormCallers : FormAttemptFails(q) => FormGoesOn(q)
    /\ \A p \in RenewCallers : RenewAttemptFails(p) => RenewGoesOn(p)
    /\ \A q \in FormCallers :
          form[q].pc = "loop" /\ FormEntryOutcome(form[q]) \in {"done", "lowFunds"} /\ FormReturns(q)
             => form'[q].result = "ok"
    /\ \A p \in RenewCallers :
          renew[p].pc = "loop" /\ renew[p].todo = << >> /\ RenewReturns(p)
             => renew'[p].result = "ok"

EstimateHostEntries ==
    {[HostEntry(1, FALSE) EXCEPT !.Filtered = f, !.StoragePrice = s] :
        f \in BOOLEAN, s \in {0, maxStoragePrice + 1}}
EstimateDirectories ==
    {EmptyMap} \cup {[h \in {"h1"} |-> e] : e \in EstimateHostEntries}

\* The contract with id and start height, its four spendings told apart.
SpentContract(id, start, unit) ==
    [Contract(id, "r1", "h1", start, start + 5, 2, 2, GoodUtility) EXCEPT
        !.UploadSpending = unit, !.DownloadSpending = 2 * unit,
        !.FundAccountSpending = 3 * unit, !.MaintenanceSpending = 4 * unit]
EstimateUnits == [id \in 1..3 |-> IF id = 1 THEN 1 ELSE IF id = 2 THEN 10 ELSE 100]
EstimateArchives ==
    UNION {[S -> {2, 3}] : S \in SUBSET {2, 3}}
EstimateLineages ==
    {EmptyMap,
     [n \in {1} |-> 2],
     [n \in {1, 2} |-> n + 1],
     [n \in {1, 2, 3} |-> IF n = 3 THEN 2 ELSE n + 1],
     [n \in {1, 2} |-> 2]}

InitEstimate ==
    /\ running = {"renew"}
    /\ contracts = [id \in {1} |-> SpentContract(1, 3, EstimateUnits[1])]
    /\ renters = [r \in RenterKeys |-> Renter(r, 8, 2)]
    /\ hdb \in EstimateDirectories
    /\ \E starts \in EstimateArchives :
          oldContracts = [id \in DOMAIN starts |-> SpentContract(id, starts[id], EstimateUnits[id])]
    /\ renewedFrom \in EstimateLineages
    /\ renewedTo = EmptyMap
    /\ stopped = FALSE /\ acquired = EmptyMap
    /\ numFailedRenews = EmptyMap /\ doubleSpentContracts = EmptyMap
    /\ pubKeysToContractID = [k \in {<<"r1", "h1">>} |-> 1]
    /\ synced = TRUE /\ maintenanceLock = "free" /\ alerts = {}
    /\ maxFee = 0 /\ walletUnlocked = TRUE /\ wdPending = {} /\ broadcast = {}
    /\ mTodo = [t \in MaintThreads |-> << >>]
    /\ mKeys = [t \in MaintThreads |-> EmptyMap]
    /\ mpc = [t \in MaintThreads |-> "idle"]
    /\ blockHeight = 3 /\ nextID = 4 /\ monitored = {1}
    /\ renew = [p \in RenewCallers |-> RenewIdle("none")]
    /\ form = [q \in FormCallers |-> FormIdle("none")]
    /\ interrupt = "idle"

\* Line 1313: the estimate of the contract is taken; the caller keeps the
\* amount and the error.
EstimateRenewFunding(p, id) ==
    /\ "renew" \in running
    /\ renew[p].pc = "idle"
    /\ Viewable(id)
    /\ LET est == managedEstimateRenewFundingRequirements(contracts[id],
                      renters[contracts[id].RenterPublicKey].Allowance)
       IN  renew' = [renew EXCEPT ![p] =
              [RenewIdle("estimated") EXCEPT !.cur = [NoRenewal EXCEPT !.id = id, !.amount = est.amount],
                                             !.err = est.err]]
    /\ UNCHANGED <<storeVars, contractorVars, envVars, maintVars, extVars, form>>

NextEstimate == \E p \in RenewCallers : EstimateRenewFunding(p, 1)

SpecEstimate == InitEstimate /\ [][NextEstimate]_vars

\* The estimate of contract 1 has been taken by p.
Estimated(p) == renew[p].result = "estimated" /\ renew[p].cur.id = 1
HostOfEstimate == contracts[1].HostPublicKey

\* C38 as stated: the estimate is an error and a zero amount when the host
\* of the contract is not in the directory, is filtered, or has a storage
\* price above maxStoragePrice.
C38_UnusableHostFailsEstimate ==
    \A p \in RenewCallers :
       (/\ Estimated(p)
        /\ \/ HostOfEstimate \notin DOMAIN hdb
           \/ hdb[HostOfEstimate].Filtered
           \/ hdb[HostOfEstimate].StoragePrice > maxStoragePrice)
          => renew[p].err # "nil" /\ renew[p].cur.amount = 0

\* C38, amended: the estimate is an error and a zero amount when the host
\* of the contract is not in the directory or is filtered; a storage price
\* above maxStoragePrice alone does not make it an error.
C38_MissingOrFilteredHostFailsEstimate ==
    \A p \in RenewCallers : Estimated(p) =>
       /\ (HostOfEstimate \notin DOMAIN hdb \/ hdb[HostOfEstimate].Filtered)
             => renew[p].err # "nil" /\ renew[p].cur.amount = 0
       /\ (/\ HostOfEstimate \in DOMAIN hdb
           /\ ~hdb[HostOfEstimate].Filtered
           /\ hdb[HostOfEstimate].StoragePrice > maxStoragePrice)
             => renew[p].err = "nil" /\ renew[p].cur.amount > 0

\* The estimate was taken with a filtered host whose storage price is above
\* the ceiling.
C38_Witness ==
    \E p \in RenewCallers :
       /\ Estimated(p)
       /\ HostOfEstimate \in DOMAIN hdb
       /\ hdb[HostOfEstimate].Filtered
       /\ hdb[HostOfEstimate].StoragePrice > maxStoragePrice

\* The walk behind contract 1, told hop by hop: HopAt[k] is the predecessor
\* reached by hop k, or 0 once the walk has stopped at an id that has no
\* predecessor, whose predecessor is missing from oldContracts, or whose
\* predecessor started before the current period of the renter.
LineageIDs == (DOMAIN renewedFrom) \cup {renewedFrom[n] : n \in DOMAIN renewedFrom}
LineageHops == Cardinality(LineageIDs) + 1
MayHop(x) ==
    /\ x \in DOMAIN renewedFrom
    /\ renewedFrom[x] \in DOMAIN oldContracts
    /\ oldContracts[renewedFrom[x]].StartHeight >= renters[contracts[1].RenterPublicKey].CurrentPeriod
HopAt[k \in 0..LineageHops] ==
    IF k = 0 THEN 1
    ELSE IF MayHop(HopAt[k - 1]) THEN renewedFrom[HopAt[k - 1]] ELSE 0
\* The walk never stops: renewedFrom has a cycle behind the contract.
WalkIsCyclic == \A k \in 0..LineageHops : HopAt[k] # 0
\* The length of the cycle the walk ends in.
CycleLength == CHOOSE l \in 1..LineageHops :
                  /\ HopAt[LineageHops] = HopAt[LineageHops - l]
                  /\ \A m \in 1..(l - 1) : HopAt[LineageHops] # HopAt[LineageHops - m]
\* How many of the hops 1..WalkCap reach x: the hops before the cycle, then
\* the share of each place of the cycle in the hops that are left.
HopsReaching(x) ==
    IF ~WalkIsCyclic THEN Cardinality({k \in 1..LineageHops : HopAt[k] = x})
    ELSE LET l == CycleLength
             base == LineageHops - l
             left == WalkCap - base
             share(j) == (left \div l) + (IF j # 0 /\ j <= left % l THEN 1 ELSE 0)
             places == {j \in 0..(l - 1) : HopAt[base + j] = x}
         IN  Cardinality({k \in 1..base : HopAt[k] = x})
             + SumOf([j \in places |-> share(j)], places)
\* The spending of contract 1 and of every predecessor reached, once for each
\* hop that reaches it.
SpendingOfWalk ==
    LET reached == {x \in DOMAIN oldContracts : HopsReaching(x) > 0}
        total(field) == SumOf([x \in reached |-> HopsReaching(x) * Spending(oldContracts[x])[field]], reached)
    IN  [Upload |-> contracts[1].UploadSpending + total("Upload"),
         Download |-> contracts[1].DownloadSpending + total("Download"),
         FundAccount |-> contracts[1].FundAccountSpending + total("FundAccount"),
         Maintenance |-> contracts[1].MaintenanceSpending + total("Maintenance")]

\* C39: the spending the estimate is made from is that of the contract and
\* of the predecessors reached by following renewedFrom back, up to the
\* first id that has no predecessor, is missing from oldContracts or started
\* before the current period; the walk ends after at most WalkCap hops, also
\* when renewedFrom has a cycle.
C39_SpendingOfPredecessorsAdded ==
    \A p \in RenewCallers : Estimated(p) =>
       \E walked \in {Walk([id |-> 1, acc |-> Spending(contracts[1]), i |-> 0, done |-> FALSE],
                            renters[contracts[1].RenterPublicKey].CurrentPeriod, WalkCap)} :
          /\ walked.acc = SpendingOfWalk
          /\ walked.i <= WalkCap
          /\ WalkIsCyclic => walked.i = WalkCap /\ ~walked.done
          /\ PrevSpending(1, renters[contracts[1].RenterPublicKey].CurrentPeriod,
                          Spending(contracts[1]), 0) = walked.acc

\* The estimate was taken behind a cycle of renewedFrom whose contracts are
\* of the current period.
C39_Witness ==
    \E p \in RenewCallers :
       /\ Estimated(p)
       /\ WalkIsCyclic
       /\ renewedFrom[1] = 2 /\ renewedFrom[2] = 3 /\ renewedFrom[3] = 2

\* The estimate was taken behind a predecessor of the current period whose
\* own predecessor started before it.
C39_StopsAtPeriod ==
    \E p \in RenewCallers :
       /\ Estimated(p)
       /\ HopAt[1] = 2 /\ HopAt[2] = 0
       /\ 2 \in DOMAIN renewedFrom /\ renewedFrom[2] = 3
       /\ 3 \in DOMAIN oldContracts

\* The renter the contract belongs to, live or archived; "" for an id the
\* stores do not know.
OwnerOf(id) ==
    IF id \in DOMAIN contracts THEN contracts[id].RenterPublicKey
    ELSE IF id \in DOMAIN oldContracts THEN oldContracts[id].RenterPublicKey
    ELSE ""
\* The live contracts of the renters other than the one p works for.
ForeignTo(p) == {id \in DOMAIN contracts : contracts[id].RenterPublicKey # renew[p].rpk}
\* The contract is left as it is by the step: utility, funds and lineage.
LeftAlone(id) ==
    /\ id \in DOMAIN contracts' /\ contracts'[id] = contracts[id]
    /\ id \in DOMAIN oldContracts' <=> id \in DOMAIN oldContracts
    /\ id \in DOMAIN renewedTo' <=> id \in DOMAIN renewedTo
    /\ id \in DOMAIN renewedFrom' <=> id \in DOMAIN renewedFrom
    /\ {n \in DOMAIN renewedFrom' : renewedFrom'[n] = id} = {n \in DOMAIN renewedFrom : renewedFrom[n] = id}
\* The ids p is to renew or refresh, is renewing, or has in its contract set.
WorkedOnBy(p) ==
    {renew[p].todo[i].id : i \in DOMAIN renew[p].todo}
        \cup (IF renew[p].cur.id # 0 THEN {renew[p].cur.id} ELSE {})
        \cup Range(renew[p].contractSet)

\* C40: a call of RenewContracts renews, refreshes and returns only
\* contracts of the calling renter; the ids it skips, unknown or of another
\* renter, keep their utility, lineage and funds through every step of the
\* call.
C40_OnlyOwnContractsRenewed ==
    /\ [](\A p \in RenewCallers : renew[p].pc # "idle" =>
             \A id \in WorkedOnBy(p) : OwnerOf(id) = renew[p].rpk)
    /\ [][\A p \in RenewCallers : renew[p].pc # "idle" /\ renew'[p] # renew[p] =>
             \A id \in ForeignTo(p) : LeftAlone(id)]_vars

\* A call of renter r2 has gone through the id of a live contract of renter
\* r1 and has skipped it: nothing is to be renewed and nothing kept.
C40_Witness ==
    \E p \in RenewCallers :
       /\ renew[p].pc = "loop" /\ renew[p].rpk = "r2"
       /\ renew[p].todo = << >> /\ renew[p].contractSet = << >>
       /\ renew[p].fundsRemaining = 0
       /\ 1 \in DOMAIN contracts /\ contracts[1].RenterPublicKey = "r1"
       /\ 2 \in DOMAIN contracts /\ contracts[2].RenterPublicKey = "r2"
====
